---- MODULE Spec2Model ----
(***************************************************************************)
(* Model of AdvancedHreflangChecker (src/streamlit_app.py): the hreflang   *)
(* validator (validate_hreflang, url_matches, normalize_url) as operators  *)
(* on strings, and the batch runner (start_analysis, worker_thread,        *)
(* stop_processing, finish_processing, process_response, add_result_row)   *)
(* as a state machine of worker threads and the Tk main loop.              *)
(***************************************************************************)
EXTENDS Integers, Sequences, FiniteSets, Bags, TLC

(***************************************************************************)
(* Python str helpers.  Strings are TLA+ strings; the character at i is    *)
(* substr(s, i, i) (1-based).  Let1([ v \in { e } |-> F(v) ]) evaluates e  *)
(* once before it is used: the operators below read their arguments many   *)
(* times.                                                                  *)
(***************************************************************************)
\* the value of a function of one argument: F(e) for [ v \in { e } |-> F(v) ]
Let1(f) == f[CHOOSE v \in DOMAIN f : TRUE]

UpperChars == "ABCDEFGHIJKLMNOPQRSTUVWXYZ"

LowerChars == "abcdefghijklmnopqrstuvwxyz"

\* the slice s[a-1:b] of Python (positions a..b, 1-based, clamped to s)
substr(s, a, b) ==
    LET lo == IF a < 1 THEN 1 ELSE a
        hi == IF b > Len(s) THEN Len(s) ELSE b
    IN  IF lo > hi THEN "" ELSE SubSeq(s, lo, hi)

\* the character at position i, "" outside the string
Char(s, i) == substr(s, i, i)

RECURSIVE find_from(_, _, _)
\* the first position >= start of s that holds the character c, 0 if none
find_from(s, c, start) ==
    IF start > Len(s) THEN 0
    ELSE IF Char(s, start) = c THEN start
    ELSE find_from(s, c, start + 1)

\* str.find(c, start) for a one-character c: the first position >= start
\* holding c, 0 when there is none (Python: -1)
find(s, c, start) == Let1([ a \in { << s, start >> } |-> find_from(a[1], c, a[2]) ])

RECURSIVE rfind_from(_, _, _)
\* the last position <= end of s that holds the character c, 0 if none
rfind_from(s, c, end) ==
    IF end < 1 THEN 0
    ELSE IF Char(s, end) = c THEN end
    ELSE rfind_from(s, c, end - 1)

\* str.rfind(c): the last position holding c, 0 when there is none
rfind(s, c) == Let1([ v \in { s } |-> rfind_from(v, c, Len(v)) ])

\* c in s
contains(s, c) == find(s, c, 1) # 0

(***************************************************************************)
(* str.lower() and str.upper().  A TLA+ string holds characters up to      *)
(* U+00FF, so the case mappings are those of Python for ASCII and Latin-1. *)
(* The upper-case forms of U+00B5 and U+00FF (U+039C and U+0178) lie       *)
(* beyond U+00FF: upper_char has no value for the two characters, and      *)
(* upper none for a string that holds one (upper_fits tells).  The only    *)
(* upper-cased text of the program is the country part of an hreflang      *)
(* value, which is looked up in an index whose keys are ASCII.             *)
(***************************************************************************)
\* the characters that str.lower() changes
CaseUpper == UpperChars \o "ÀÁÂÃÄÅÆÇÈÉÊËÌÍÎÏÐÑÒÓÔÕÖØÙÚÛÜÝÞ"

\* what str.lower() makes of them, position by position
CaseLower == LowerChars \o "àáâãäåæçèéêëìíîïðñòóôõöøùúûüýþ"

\* the characters of a string
chars_of(s) == { Char(s, i) : i \in 1..Len(s) }

\* chr(i), for the code points U+0001..U+00FF but U+0060, which a string
\* literal cannot hold: chr(96) has no value here
Latin1 ==
    LET low ==
        "\t\n\f\r"
        \o " !\"#$%&'()*+,-./0123456789:;<=>?"
        \o "@ABCDEFGHIJKLMNOPQRSTUVWXYZ[\\]^_"
        high ==
        "abcdefghijklmnopqrstuvwxyz{|}~"
        \o ""
        \o " ¡¢£¤¥¦§¨©ª«¬­®¯°±²³´µ¶·¸¹º»¼½¾¿"
        \o "ÀÁÂÃÄÅÆÇÈÉÊËÌÍÎÏÐÑÒÓÔÕÖ×ØÙÚÛÜÝÞß"
        \o "àáâãäåæçèéêëìíîïðñòóôõö÷øùúûüýþÿ"
    IN  [ i \in (1..255) \ { 96 } |->
            IF i < 96 THEN substr(low, i, i) ELSE substr(high, i - 96, i - 96) ]

\* ord(c)
Ord == [ c \in { Latin1[i] : i \in DOMAIN Latin1 } |-> CHOOSE i \in DOMAIN Latin1 : Latin1[i] = c ]

\* str.lower() of the characters it changes
LowerMap == [ c \in chars_of(CaseUpper) |-> Char(CaseLower, find_from(CaseUpper, c, 1)) ]

\* str.upper() of the characters it changes one for one
UpperMap == [ c \in chars_of(CaseLower) |-> Char(CaseUpper, find_from(CaseLower, c, 1)) ]

\* str.lower() of a string of one character
lower_char(c) == IF c \in DOMAIN LowerMap THEN LowerMap[c] ELSE c

\* the characters whose upper-case form lies beyond U+00FF
WideUpper == { "µ", "ÿ" }

\* str.upper() of a string of one character; the sharp s becomes two
\* characters; no value for the characters of WideUpper
upper_char(c) ==
    CASE c = "ß" -> "SS"
      [] c \in DOMAIN UpperMap -> UpperMap[c]
      [] c \notin DOMAIN UpperMap \cup WideUpper \cup { "ß" } -> c

RECURSIVE lower_upto(_, _)
\* s[:n].lower()
lower_upto(s, n) ==
    IF n = 0 THEN "" ELSE lower_upto(s, n - 1) \o lower_char(Char(s, n))

\* str.lower()
lower(s) == Let1([ v \in { s } |-> lower_upto(v, Len(v)) ])

RECURSIVE upper_upto(_, _)
\* s[:n].upper()
upper_upto(s, n) ==
    IF n = 0 THEN "" ELSE upper_upto(s, n - 1) \o upper_char(Char(s, n))

\* s.upper() is a string of characters up to U+00FF
upper_fits(s) == \A i \in 1..Len(s) : Char(s, i) \notin WideUpper

\* str.upper(), of a string that upper_fits
upper(s) == Let1([ v \in { s } |-> upper_upto(v, Len(v)) ])

RECURSIVE rstrip_end(_, _, _)
\* the length of s[:n] without its trailing c's
rstrip_end(s, c, n) ==
    IF n > 0 /\ Char(s, n) = c THEN rstrip_end(s, c, n - 1) ELSE n

\* str.rstrip(c): every trailing c is removed
rstrip(s, c) == Let1([ v \in { s } |-> substr(v, 1, rstrip_end(v, c, Len(v))) ])

RECURSIVE split_from(_, _, _)
\* the pieces of s[start-1:] between the occurrences of c
split_from(s, c, start) ==
    Let1([ i \in { find_from(s, c, start) } |->
        IF i = 0 THEN << substr(s, start, Len(s)) >>
        ELSE << substr(s, start, i - 1) >> \o split_from(s, c, i + 1) ])

\* str.split(c): the list of the pieces between the occurrences of c
split(s, c) == Let1([ v \in { s } |-> split_from(v, c, 1) ])

RECURSIVE join(_, _)
\* sep.join(items)
join(sep, items) ==
    IF Len(items) = 0 THEN ""
    ELSE IF Len(items) = 1 THEN items[1]
    ELSE items[1] \o sep \o join(sep, Tail(items))

\* str.partition(c) without the separator: s cut at the first c
split_at(s, c) ==
    Let1([ a \in { << s, find(s, c, 1) >> } |->
        IF a[2] = 0 THEN [ head |-> a[1], tail |-> "" ]
        ELSE [ head |-> substr(a[1], 1, a[2] - 1),
               tail |-> substr(a[1], a[2] + 1, Len(a[1])) ] ])

\* needle in hay
in_str(needle, hay) ==
    Let1([ a \in { << needle, hay >> } |->
        \E i \in 1..(Len(a[2]) - Len(a[1]) + 1) :
            substr(a[2], i, i + Len(a[1]) - 1) = a[1] ])

(***************************************************************************)
(* urllib.parse.urlparse, as normalize_url uses it.  The result is a       *)
(* record; raised = TRUE stands for ValueError("Invalid IPv6 URL").        *)
(***************************************************************************)
SchemeChars == "abcdefghijklmnopqrstuvwxyzABCDEFGHIJKLMNOPQRSTUVWXYZ0123456789+-."

\* urllib.parse.uses_params: the schemes whose last path segment may carry
\* ;parameters
uses_params ==
    { "", "ftp", "hdl", "prospero", "http", "imap", "https", "shttp", "rtsp",
      "rtsps", "rtspu", "sip", "sips", "mms", "sftp", "tel" }

\* urllib.parse.uses_netloc
uses_netloc ==
    { "", "ftp", "http", "gopher", "nntp", "telnet", "imap", "wais", "file", "mms",
      "https", "shttp", "snews", "prospero", "rtsp", "rtsps", "rtspu", "rsync",
      "svn", "svn+ssh", "sftp", "nfs", "git", "git+ssh", "ws", "wss" }

\* urllib.parse._WHATWG_C0_CONTROL_OR_SPACE: U+0000..U+0020, of which a
\* string of the model can hold U+0001..U+0020
C0ControlOrSpace == { Latin1[i] : i \in 1..32 }

\* urllib.parse._UNSAFE_URL_BYTES_TO_REMOVE
UnsafeUrlBytesToRemove == { "\t", "\r", "\n" }

\* the characters that str.lstrip() takes for white space
Whitespace == { Latin1[i] : i \in (9..13) \cup (28..32) \cup { 133, 160 } }

HexDigits == "0123456789ABCDEFabcdef"

DecDigits == "0123456789"

is_alpha(c) == c # "" /\ (contains(UpperChars, c) \/ contains(LowerChars, c))

is_scheme_char(c) == c # "" /\ contains(SchemeChars, c)

RECURSIVE lstrip_start(_, _, _)
\* the first position >= i of s whose character is not in chars
lstrip_start(s, chars, i) ==
    IF i <= Len(s) /\ Char(s, i) \in chars THEN lstrip_start(s, chars, i + 1) ELSE i

\* str.lstrip(chars)
lstrip(s, chars) == Let1([ v \in { s } |-> substr(v, lstrip_start(v, chars, 1), Len(v)) ])

RECURSIVE remove_upto(_, _, _)
\* s[:n] without its characters in chars
remove_upto(s, chars, n) ==
    IF n = 0 THEN ""
    ELSE remove_upto(s, chars, n - 1)
         \o (IF Char(s, n) \in chars THEN "" ELSE Char(s, n))

\* s.replace(b, "") for every b in chars
remove_chars(s, chars) ==
    Let1([ v \in { s } |->
        IF \A i \in 1..Len(v) : Char(v, i) \notin chars THEN v
        ELSE remove_upto(v, chars, Len(v)) ])

RECURSIVE netloc_end(_, _)
\* the position of the first of "/", "?", "#" at or after start, Len(url)+1
\* when there is none (urllib.parse._splitnetloc)
netloc_end(url, start) ==
    IF start > Len(url) \/ Char(url, start) \in { "/", "?", "#" } THEN start
    ELSE netloc_end(url, start + 1)

\* urlsplit: leading control characters and spaces are stripped, tab, CR and
\* LF are removed, and the scheme is cut off when the text before the first
\* ":" is one
split_scheme(url) ==
    Let1([ u \in { remove_chars(lstrip(url, C0ControlOrSpace), UnsafeUrlBytesToRemove) } |->
    Let1([ i \in { find(u, ":", 1) } |->
        IF /\ i > 1
           /\ is_alpha(Char(u, 1))
           /\ \A k \in 1..(i - 1) : is_scheme_char(Char(u, k))
        THEN [ scheme |-> lower(substr(u, 1, i - 1)),
               rest |-> substr(u, i + 1, Len(u)) ]
        ELSE [ scheme |-> "", rest |-> u ] ]) ])

\* urlsplit: the netloc is what follows a leading "//"
split_netloc(url) ==
    Let1([ u \in { url } |->
        IF substr(u, 1, 2) = "//"
        THEN Let1([ e \in { netloc_end(u, 3) } |->
                 [ netloc |-> substr(u, 3, e - 1), rest |-> substr(u, e, Len(u)) ] ])
        ELSE [ netloc |-> "", rest |-> u ] ])

\* every character of s is one of digits
all_in(s, digits) == \A i \in 1..Len(s) : contains(digits, Char(s, i))

\* ipaddress.IPv4Address._parse_octet accepts the octet: decimal digits, at
\* most three, no leading zero, at most 255
is_octet(octet_str) ==
    Let1([ o \in { octet_str } |->
        /\ o # ""
        /\ all_in(o, DecDigits)
        /\ Len(o) <= 3
        /\ ~(o # "0" /\ Char(o, 1) = "0")
        /\ \/ Len(o) < 3
           \/ Char(o, 1) = "1"
           \/ /\ Char(o, 1) = "2"
              /\ \/ contains("01234", Char(o, 2))
                 \/ Char(o, 2) = "5" /\ contains("012345", Char(o, 3)) ])

\* ipaddress.IPv4Address(address) does not raise
is_ipv4(address) ==
    Let1([ octets \in { split(address, ".") } |->
        /\ address # ""
        /\ ~contains(address, "/")
        /\ Len(octets) = 4
        /\ \A i \in 1..4 : is_octet(octets[i]) ])

\* ipaddress.IPv6Address._parse_hextet accepts the hextet
is_hextet(hextet_str) ==
    Let1([ h \in { hextet_str } |-> h # "" /\ all_in(h, HexDigits) /\ Len(h) <= 4 ])

\* ipaddress.IPv6Address._ip_int_from_string accepts the list of parts, the
\* IPv4 suffix already replaced by two hextets
is_hextets(parts) ==
    LET n == Len(parts)
        skips == { i \in 2..(n - 1) : parts[i] = "" }
    IN  /\ n <= 9
        /\ Cardinality(skips) <= 1
        /\ IF skips # {}
           THEN LET skip_index == CHOOSE i \in skips : TRUE
                    parts_hi == (skip_index - 1) - (IF parts[1] = "" THEN 1 ELSE 0)
                    parts_lo == (n - skip_index) - (IF parts[n] = "" THEN 1 ELSE 0)
                IN  /\ parts[1] = "" => parts_hi = 0
                    /\ parts[n] = "" => parts_lo = 0
                    /\ 8 - (parts_hi + parts_lo) >= 1
                    /\ \A i \in 1..parts_hi : is_hextet(parts[i])
                    /\ \A i \in (n - parts_lo + 1)..n : is_hextet(parts[i])
           ELSE /\ n = 8
                /\ \A i \in 1..n : is_hextet(parts[i])

\* ipaddress.IPv6Address(address) does not raise
is_ipv6(address) ==
    Let1([ a \in { split_at(address, "%") } |->
    Let1([ parts \in { split(a.head, ":") } |->
        /\ ~contains(address, "/")
        /\ contains(address, "%") => (a.tail # "" /\ ~contains(a.tail, "%"))
        /\ a.head # ""
        /\ Len(parts) >= 3
        /\ IF contains(parts[Len(parts)], ".")
           THEN /\ is_ipv4(parts[Len(parts)])
                /\ is_hextets(SubSeq(parts, 1, Len(parts) - 1) \o << "0", "0" >>)
           ELSE is_hextets(parts) ]) ])

\* the hostname matches \Av[a-fA-F0-9]+\..+\Z
is_ipvfuture(hostname) ==
    Let1([ h \in { hostname } |->
    Let1([ k \in { CHOOSE k \in 2..(Len(h) + 1) :
                       /\ \A j \in 2..(k - 1) : contains(HexDigits, Char(h, j))
                       /\ (k = Len(h) + 1 \/ ~contains(HexDigits, Char(h, k))) } |->
        /\ Char(h, 1) = "v"
        /\ k > 2
        /\ Char(h, k) = "."
        /\ Len(h) > k
        /\ ~contains(substr(h, k + 1, Len(h)), "\n") ]) ])

\* urllib.parse._check_bracketed_host raises ValueError
check_bracketed_host(hostname) ==
    IF Char(hostname, 1) = "v" THEN ~is_ipvfuture(hostname) ELSE ~is_ipv6(hostname)

\* urlsplit raises ValueError for the netloc: "[" without "]" or the
\* reverse, or a bracketed host that is not an IPv6 or IPvFuture address
bad_brackets(netloc) ==
    Let1([ n \in { netloc } |->
        \/ contains(n, "[") /\ ~contains(n, "]")
        \/ contains(n, "]") /\ ~contains(n, "[")
        \/ /\ contains(n, "[") /\ contains(n, "]")
           /\ check_bracketed_host(split_at(split_at(n, "[").tail, "]").head) ])

\* urllib.parse.urlsplit: scheme, netloc, path, query, fragment.
\* (_checknetloc raises for no netloc of characters up to U+00FF.)
urlsplit(url) ==
    Let1([ a \in { split_scheme(url) } |->
    Let1([ b \in { split_netloc(a.rest) } |->
    Let1([ c \in { split_at(b.rest, "#") } |->
    Let1([ d \in { split_at(c.head, "?") } |->
        [ raised |-> bad_brackets(b.netloc), scheme |-> a.scheme, netloc |-> b.netloc,
          path |-> d.head, query |-> d.tail, fragment |-> c.tail ] ]) ]) ]) ])

\* urllib.parse._splitparams: the position of the ";" that starts the
\* parameters of the last path segment, 0 when there is none
splitparams_at(path) ==
    Let1([ p \in { path } |->
        IF contains(p, "/") THEN find(p, ";", rfind(p, "/")) ELSE find(p, ";", 1) ])

\* urlparse: the path of a split URL cut into path and ;parameters, as the
\* scheme asks
split_params(scheme, path) ==
    Let1([ a \in { << path, IF scheme \in uses_params /\ contains(path, ";")
                            THEN splitparams_at(path) ELSE 0 >> } |->
        IF a[2] = 0 THEN [ path |-> a[1], params |-> "" ]
        ELSE [ path |-> substr(a[1], 1, a[2] - 1),
               params |-> substr(a[1], a[2] + 1, Len(a[1])) ] ])

\* urllib.parse.urlparse: urlsplit, then the ;parameters are cut off the path
urlparse(url) ==
    Let1([ s \in { urlsplit(url) } |->
    Let1([ p \in { split_params(s.scheme, s.path) } |->
        [ raised |-> s.raised, scheme |-> s.scheme, netloc |-> s.netloc,
          path |-> p.path, params |-> p.params,
          query |-> s.query, fragment |-> s.fragment ] ]) ])

(***************************************************************************)
(* url_matches / normalize_url                                             *)
(***************************************************************************)
\* normalize_url: f"{scheme}://{netloc}{path}".rstrip('/').lower()
normalize_url(url) ==
    Let1([ parsed \in { urlparse(url) } |->
        lower(rstrip(parsed.scheme \o "://" \o parsed.netloc \o parsed.path, "/")) ])

\* normalize_url raises ValueError when urlparse does
normalize_url_raises(url) == urlparse(url).raised

\* url_matches: the two normalized forms are equal
url_matches(href, base_url) ==
    LET norm_href == normalize_url(href)
        norm_base == normalize_url(base_url)
    IN  norm_href = norm_base

(***************************************************************************)
(* validate_hreflang.  pycountry's Database.get(alpha_2=value) lowercases  *)
(* value and returns the entry, or None when the index has no such key: it *)
(* raises nothing for a string argument.                                   *)
(***************************************************************************)
\* pycountry.languages, alpha_2 index (excerpt of ISO 639-1)
LanguagesAlpha2 == { "en", "de", "fr", "es", "it", "pt", "nl", "ja", "zh", "ru" }

\* pycountry.countries, alpha_2 index (excerpt of ISO 3166-1)
CountriesAlpha2 == { "US", "GB", "DE", "FR", "ES", "IT", "BR", "NL", "JP", "CN", "IN", "CA" }

\* None where a string is expected (an absent tag, attribute or table
\* entry).  A value that may be None is a sequence: << >> is None and
\* << s >> is the string s, so that None differs from every string
None == << >>

\* a string where None is possible
Some(s) == << s >>

\* pycountry.languages.get(alpha_2=value)
languages_get(value) ==
    [ raised |-> FALSE,
      value |-> IF lower(value) \in LanguagesAlpha2 THEN Some(lower(value)) ELSE None ]

\* pycountry.countries.get(alpha_2=value): the index is looked up with the
\* value in lower case
countries_get(value) ==
    [ raised |-> FALSE,
      value |-> IF \E c \in CountriesAlpha2 : lower(c) = lower(value)
                THEN Some(CHOOSE c \in CountriesAlpha2 : lower(c) = lower(value))
                ELSE None ]

\* validate_hreflang with the limit on the parts off by one
validate_hreflang_3(hreflang) ==
    IF hreflang = "x-default" THEN TRUE
    ELSE Let1([ parts \in { split(hreflang, "-") } |-> IF Len(parts) > 3 THEN FALSE ELSE TRUE ])

\* validate_hreflang: x-default, at most two parts, and the lookups of the
\* non-empty parts must not raise (their results are not inspected).  The
\* lookup of a country part whose upper-case form lies beyond U+00FF raises
\* nothing either
validate_hreflang(hreflang) ==
    IF hreflang = "x-default" THEN TRUE
    ELSE Let1([ parts \in { split(hreflang, "-") } |->
         IF Len(parts) > 2 THEN FALSE
         ELSE LET r1 == IF parts[1] # "" THEN languages_get(parts[1]).raised ELSE FALSE
                  r2 == IF Len(parts) > 1 /\ parts[2] # "" /\ upper_fits(parts[2])
                        THEN countries_get(upper(parts[2])).raised ELSE FALSE
              IN  IF r1 \/ r2 THEN FALSE ELSE TRUE ])

(***************************************************************************)
(* urllib.parse.urljoin, as process_response uses it to resolve the href   *)
(* of a link against the page URL; raised = TRUE stands for ValueError.    *)
(***************************************************************************)
\* urllib.parse.urlunsplit
urlunsplit(scheme, netloc, path, query, fragment) ==
    Let1([ url \in { IF \/ netloc # ""
                        \/ (scheme # "" /\ scheme \in uses_netloc /\ substr(path, 1, 2) # "//")
                     THEN "//" \o netloc
                          \o (IF path # "" /\ Char(path, 1) # "/" THEN "/" \o path ELSE path)
                     ELSE path } |->
        (IF scheme # "" THEN scheme \o ":" ELSE "")
        \o url
        \o (IF query # "" THEN "?" \o query ELSE "")
        \o (IF fragment # "" THEN "#" \o fragment ELSE "") ])

\* urllib.parse.urlunparse
urlunparse(scheme, netloc, path, params, query, fragment) ==
    urlunsplit(scheme, netloc, IF params # "" THEN path \o ";" \o params ELSE path,
               query, fragment)

\* urllib.parse.uses_relative
uses_relative ==
    { "", "ftp", "http", "gopher", "nntp", "imap", "wais", "file", "https",
      "shttp", "mms", "prospero", "rtsp", "rtsps", "rtspu", "sftp", "svn", "svn+ssh",
      "ws", "wss" }

RECURSIVE join_segments(_, _)
\* '/'.join(segments[:n])
join_segments(segments, n) ==
    IF n = 0 THEN ""
    ELSE IF n = 1 THEN segments[1]
    ELSE join_segments(segments, n - 1) \o "/" \o segments[n]

RECURSIVE resolve_segments(_, _)
\* urljoin: resolved_path after the first n segments: ".." drops the last
\* segment kept so far, "." is skipped
resolve_segments(segments, n) ==
    IF n = 0 THEN << >>
    ELSE Let1([ resolved_path \in { resolve_segments(segments, n - 1) } |->
             IF segments[n] = ".."
             THEN SubSeq(resolved_path, 1, Len(resolved_path) - 1)
             ELSE IF segments[n] = "." THEN resolved_path
             ELSE Append(resolved_path, segments[n]) ])

\* urljoin: the path of a relative reference put on the directory of the
\* base, with its "." and ".." segments resolved
merge_paths(base_path, path) ==
    Let1([ bp \in { split(base_path, "/") } |->
    Let1([ base_parts \in { IF bp[Len(bp)] # "" THEN SubSeq(bp, 1, Len(bp) - 1) ELSE bp } |->
    Let1([ segments \in { IF Char(path, 1) = "/" THEN split(path, "/")
                          ELSE Let1([ all \in { base_parts \o split(path, "/") } |->
                                   IF Len(all) < 3 THEN all
                                   ELSE << all[1] >>
                                        \o SelectSeq(SubSeq(all, 2, Len(all) - 1),
                                                      LAMBDA x : x # "")
                                        \o << all[Len(all)] >> ]) } |->
    Let1([ r \in { resolve_segments(segments, Len(segments)) } |->
    Let1([ resolved_path \in { IF segments[Len(segments)] \in { ".", ".." }
                               THEN Append(r, "") ELSE r } |->
    Let1([ joined \in { join_segments(resolved_path, Len(resolved_path)) } |->
        IF joined = "" THEN "/" ELSE joined ]) ]) ]) ]) ]) ])

urljoin(base, url) ==
    IF base = "" THEN [ raised |-> FALSE, value |-> url ]
    ELSE IF url = "" THEN [ raised |-> FALSE, value |-> base ]
    ELSE
    Let1([ a \in { << urlparse(base), urlsplit(url) >> } |->
    Let1([ scheme \in { IF a[2].scheme = "" THEN a[1].scheme ELSE a[2].scheme } |->
    Let1([ p \in { split_params(scheme, a[2].path) } |->
        IF a[1].raised \/ a[2].raised THEN [ raised |-> TRUE, value |-> "" ]
        ELSE IF scheme # a[1].scheme \/ scheme \notin uses_relative
        THEN [ raised |-> FALSE, value |-> url ]
        ELSE IF scheme \in uses_netloc /\ a[2].netloc # ""
        THEN [ raised |-> FALSE,
               value |-> urlunparse(scheme, a[2].netloc, p.path, p.params,
                                    a[2].query, a[2].fragment) ]
        ELSE Let1([ netloc \in { IF scheme \in uses_netloc THEN a[1].netloc ELSE a[2].netloc } |->
        IF p.path = "" /\ p.params = ""
        THEN [ raised |-> FALSE,
               value |-> urlunparse(scheme, netloc, a[1].path, a[1].params,
                                    IF a[2].query = "" THEN a[1].query ELSE a[2].query,
                                    a[2].fragment) ]
        ELSE [ raised |-> FALSE,
               value |-> urlunparse(scheme, netloc, merge_paths(a[1].path, p.path),
                                    p.params, a[2].query, a[2].fragment) ] ]) ]) ]) ])

(***************************************************************************)
(* requests.Session.get up to the request being sent: the URL is prepared  *)
(* (PreparedRequest.prepare_url, with urllib3's parse_url and the idna and *)
(* punycode codecs) and an adapter is looked up for the prepared URL       *)
(* (Session.get_adapter).  raised = TRUE stands for MissingSchema,         *)
(* InvalidURL or InvalidSchema.                                            *)
(***************************************************************************)
\* "%XX" for the byte n
percent_byte(n) == "%" \o Char(HexDigits, (n \div 16) + 1) \o Char(HexDigits, (n % 16) + 1)

\* the UTF-8 bytes of the character c, each as "%XX"
percent_char(c) ==
    Let1([ n \in { Ord[c] } |->
        IF n < 128 THEN percent_byte(n)
        ELSE percent_byte(192 + (n \div 64)) \o percent_byte(128 + (n % 64)) ])

\* urllib3 PERCENT_RE matches at position i of s
is_percent(s, i) ==
    /\ Char(s, i) = "%"
    /\ Len(s) >= i + 2
    /\ contains(HexDigits, Char(s, i + 1))
    /\ contains(HexDigits, Char(s, i + 2))

\* urllib3 UNRESERVED_CHARS (urllib.parse._ALWAYS_SAFE, requests UNRESERVED_SET)
UnreservedChars == UpperChars \o LowerChars \o DecDigits \o "._-~"

\* urllib3 USERINFO_CHARS
UserinfoChars == UnreservedChars \o "!$&'()*+,;=:"

\* urllib3 PATH_CHARS
PathChars == UserinfoChars \o "@/"

\* urllib3 QUERY_CHARS and FRAGMENT_CHARS
QueryChars == PathChars \o "?"

RECURSIVE concat(_, _, _)
\* F(lo) \o F(lo + 1) \o ... \o F(hi)
concat(F(_), lo, hi) ==
    IF lo > hi THEN ""
    ELSE IF lo = hi THEN F(lo)
    ELSE Let1([ mid \in { (lo + hi) \div 2 } |-> concat(F, lo, mid) \o concat(F, mid + 1, hi) ])

\* string with every character that is not in the set safe percent-encoded
quote_from_bytes(string, safe) ==
    concat(LAMBDA i : IF Char(string, i) \in safe THEN Char(string, i)
                      ELSE percent_char(Char(string, i)), 1, Len(string))

\* urllib.parse.quote(string, safe)
quote(string, safe) ==
    Let1([ a \in { << string, chars_of(UnreservedChars \o safe) >> } |->
        quote_from_bytes(a[1], a[2]) ])

\* urllib3 _encode_invalid_chars: the percent-encodings are upper-cased, and
\* the characters outside allowed_chars are percent-encoded, "%" too unless
\* every "%" starts a percent-encoding
encode_invalid_chars(component, allowed_chars) ==
    Let1([ c \in { component } |->
    Let1([ percent_encodings \in { { i \in 1..Len(c) : is_percent(c, i) } } |->
    Let1([ text \in { concat(LAMBDA i : IF \/ (i - 1) \in percent_encodings
                                           \/ (i - 2) \in percent_encodings
                                        THEN upper_char(Char(c, i)) ELSE Char(c, i),
                             1, Len(c)) } |->
    Let1([ is_percent_encoded \in { Cardinality(percent_encodings)
                                       = Cardinality({ i \in 1..Len(c) : Char(c, i) = "%" }) } |->
        quote_from_bytes(text, IF is_percent_encoded
                               THEN chars_of(allowed_chars) \cup { "%" }
                               ELSE chars_of(allowed_chars)) ]) ]) ]) ])

\* urllib3 _remove_path_dot_segments
remove_path_dot_segments(path) ==
    Let1([ segments \in { split(path, "/") } |->
    Let1([ kept \in { resolve_segments(segments, Len(segments)) } |->
    Let1([ rooted \in { IF Char(path, 1) = "/" /\ (Len(kept) = 0 \/ kept[1] # "")
                        THEN << "" >> \o kept ELSE kept } |->
    Let1([ output \in { IF \/ substr(path, Len(path) - 1, Len(path)) = "/."
                           \/ substr(path, Len(path) - 2, Len(path)) = "/.."
                        THEN Append(rooted, "") ELSE rooted } |->
        join_segments(output, Len(output)) ]) ]) ]) ])

\* idnadata: the code points of class PVALID up to U+00FF
PValid == "-" \o DecDigits \o LowerChars \o "ßàáâãäåæçèéêëìíîïðñòóôõöøùúûüýþÿ"

\* the digits of punycode
PunycodeDigits == LowerChars \o DecDigits

\* str.encode('punycode') (RFC 3492): the ASCII characters of the label,
\* "-" when there are any, and the insertions of the other characters as
\* variable-length integers
punycode(label) ==
    LET len == Len(label)
        cp(i) == Ord[Char(label, i)]
        base == remove_chars(label, { Char(label, i) : i \in { j \in 1..len : cp(j) >= 128 } })
        RECURSIVE scaled(_, _)
        scaled(delta, k) ==
            IF delta > 455 THEN scaled(delta \div 35, k + 36)
            ELSE k + ((36 * delta) \div (delta + 38))
        adapt(delta, numpoints, first) ==
            Let1([ d \in { IF first THEN delta \div 700 ELSE delta \div 2 } |->
                scaled(d + (d \div numpoints), 0) ])
        RECURSIVE integer(_, _, _)
        integer(q, k, bias) ==
            Let1([ t \in { IF k <= bias THEN 1 ELSE IF k >= bias + 26 THEN 26 ELSE k - bias } |->
                IF q < t THEN Char(PunycodeDigits, q + 1)
                ELSE Char(PunycodeDigits, t + ((q - t) % (36 - t)) + 1)
                     \o integer((q - t) \div (36 - t), k + 36, bias) ])
        RECURSIVE insert(_, _, _, _, _)
        RECURSIVE scan(_, _, _, _, _)
        \* the code points from n on are still to be inserted; h are handled
        insert(n, delta, bias, h, dummy) ==
            IF h = len THEN ""
            ELSE Let1([ m \in { CHOOSE m \in n..255 :
                                   /\ \E i \in 1..len : cp(i) = m
                                   /\ \A i \in 1..len : cp(i) >= n => cp(i) >= m } |->
                     scan(1, m, << delta + ((m - n) * (h + 1)), bias >>, h, dummy) ])
        \* the positions from i on are searched for the code point m
        scan(i, m, state, h, dummy) ==
            IF i > len THEN insert(m + 1, state[1] + 1, state[2], h, dummy)
            ELSE IF cp(i) < m THEN scan(i + 1, m, << state[1] + 1, state[2] >>, h, dummy)
            ELSE IF cp(i) = m
            THEN integer(state[1], 36, state[2])
                 \o scan(i + 1, m, << 0, adapt(state[1], h + 1, h = Len(base)) >>, h + 1, dummy)
            ELSE scan(i + 1, m, state, h, dummy)
    IN  (IF base # "" THEN base \o "-" ELSE "") \o insert(128, 0, 72, Len(base), 0)

\* urllib3 _idna_encode for a label of a host name: [raised, value].  A
\* label with a character beyond ASCII goes through idna.encode (check_label,
\* then "xn--" and the punycode of the label)
idna_encode(name) ==
    IF name = "" \/ \A i \in 1..Len(name) : Ord[Char(name, i)] < 128
    THEN [ raised |-> FALSE, value |-> lower(name) ]
    ELSE Let1([ label \in { lower(name) } |->
         IF \/ substr(label, 3, 4) = "--"
            \/ Char(label, 1) = "-"
            \/ Char(label, Len(label)) = "-"
            \/ \E i \in 1..Len(label) :
                  /\ ~contains(PValid, Char(label, i))
                  /\ ~(/\ Char(label, i) = "·"
                       /\ Char(label, i - 1) = "l"
                       /\ Char(label, i + 1) = "l")
         THEN [ raised |-> TRUE, value |-> "" ]
         ELSE Let1([ alabel \in { "xn--" \o punycode(label) } |->
                  [ raised |-> Len(alabel) > 63, value |-> alabel ] ]) ])

\* urllib3 IPV4_PAT matches the whole of s
is_ipv4_pat(s) ==
    Let1([ parts \in { split(s, ".") } |->
        /\ Len(parts) = 4
        /\ \A i \in 1..4 : parts[i] # "" /\ Len(parts[i]) <= 3 /\ all_in(parts[i], DecDigits) ])

\* urllib3 IPV6_PAT matches the whole of s: eight groups of one to four hex
\* digits, the last two possibly written as an IPv4 address, or fewer with
\* one "::" where groups are left out
is_ipv6_pat(s) ==
    LET h16(g) == g # "" /\ Len(g) <= 4 /\ all_in(g, HexDigits)
        groups(t) == IF t = "" THEN << >> ELSE split(t, ":")
        \* t is a list of h16, the last of which may be an IPv4 address if ls32
        units(g, ls32) ==
            IF Len(g) > 0 /\ ls32 /\ is_ipv4_pat(g[Len(g)])
            THEN IF \A i \in 1..(Len(g) - 1) : h16(g[i]) THEN Len(g) + 1 ELSE 99
            ELSE IF \A i \in 1..Len(g) : h16(g[i]) THEN Len(g) ELSE 99
        gap == CHOOSE i \in 0..Len(s) :
                  /\ i > 0 => substr(s, i, i + 1) = "::"
                  /\ \A j \in 1..(IF i = 0 THEN Len(s) ELSE i - 1) : substr(s, j, j + 1) # "::"
    IN  IF gap = 0 THEN units(groups(s), TRUE) = 8
        ELSE units(groups(substr(s, 1, gap - 1)), FALSE)
               + units(groups(substr(s, gap + 2, Len(s))), TRUE) <= 7

\* s without one trailing newline: where "$" of a pattern matches
before_newline(s) ==
    IF Char(s, Len(s)) = "\n" THEN substr(s, 1, Len(s) - 1) ELSE s

\* urllib3 IPV6_ADDRZ_RE matches host: "[", an IPv6 address, possibly "%"
\* (or "%25") and a zone of unreserved characters and percent-encodings, "]"
is_ipv6_addrz(host) ==
    Let1([ h \in { before_newline(host) } |->
    Let1([ a \in { split_at(substr(h, 2, Len(h) - 1), "%") } |->
        /\ Len(h) >= 2
        /\ Char(h, 1) = "["
        /\ Char(h, Len(h)) = "]"
        /\ is_ipv6_pat(a.head)
        /\ (contains(h, "%") =>
               /\ a.tail # ""
               /\ \A i \in 1..Len(a.tail) :
                     \/ Char(a.tail, i) \in chars_of(UnreservedChars)
                     \/ is_percent(a.tail, i)) ]) ])

\* urllib3 _normalize_host: [raised, value], value being the host or None
normalize_host(host, scheme) ==
    IF host \in { None, Some("") } \/ scheme \notin { None, Some("http"), Some("https") }
    THEN [ raised |-> FALSE, value |-> host ]
    ELSE Let1([ h \in { host[1] } |->
         IF is_ipv6_addrz(h)
         THEN IF ~contains(h, "%") THEN [ raised |-> FALSE, value |-> Some(lower(h)) ]
              ELSE Let1([ span \in { << find(h, "%", 1), rfind(h, "]") >> } |->
                   Let1([ zone_id \in { substr(h, span[1], span[2] - 1) } |->
                       [ raised |-> FALSE,
                         value |-> Some(lower(substr(h, 1, span[1] - 1))
                                        \o "%"
                                        \o encode_invalid_chars(
                                              IF substr(zone_id, 1, 3) = "%25" /\ zone_id # "%25"
                                              THEN substr(zone_id, 4, Len(zone_id))
                                              ELSE substr(zone_id, 2, Len(zone_id)),
                                              UnreservedChars)
                                        \o substr(h, span[2], Len(h))) ] ]) ])
         ELSE IF is_ipv4_pat(before_newline(h)) THEN [ raised |-> FALSE, value |-> host ]
         ELSE Let1([ names \in { split(h, ".") } |->
              Let1([ labels \in { [ i \in 1..Len(names) |-> idna_encode(names[i]) ] } |->
                  IF \E i \in 1..Len(labels) : labels[i].raised
                  THEN [ raised |-> TRUE, value |-> None ]
                  ELSE [ raised |-> FALSE,
                         value |-> Some(join(".", [ i \in 1..Len(labels) |->
                                                        labels[i].value ])) ] ]) ]) ])

\* urllib3 _HOST_PORT_RE matched on host_port: [raised, host, port], port
\* being the digits after the leading zeros, or None without ":".  raised
\* stands for no match
host_port(text) ==
    LET reg_name(h) ==
            \A i \in 1..Len(h) :
               \/ Char(h, i) \notin { "[", "]", "%", ":", "/", "?", "#" }
               \/ is_percent(h, i)
        RECURSIVE zeros(_, _)
        zeros(p, i) == IF i < Len(p) /\ Char(p, i) = "0" THEN zeros(p, i + 1) ELSE i
        \* what follows the host: nothing, or ":" and a port
        port_of(tail) ==
            IF tail \in { "", "\n" } THEN [ raised |-> FALSE, port |-> None ]
            ELSE Let1([ p \in { before_newline(substr(tail, 2, Len(tail))) } |->
                 Let1([ digits \in { substr(p, zeros(p, 1), Len(p)) } |->
                     [ raised |-> \/ Char(tail, 1) # ":"
                                  \/ ~all_in(p, DecDigits)
                                  \/ Len(digits) > 5,
                       port |-> Some(digits) ] ]) ])
    IN  Let1([ e \in { IF Char(text, 1) = "[" THEN find(text, "]", 1)
                       ELSE find(text, ":", 1) - 1 } |->
        Let1([ end \in { IF e = 0 - 1 THEN Len(text) ELSE e } |->
        Let1([ p \in { port_of(substr(text, end + 1, Len(text))) } |->
            [ raised |-> \/ p.raised
                         \/ IF Char(text, 1) = "["
                            THEN end = 0 \/ ~is_ipv6_addrz(substr(text, 1, end))
                                 \/ Char(substr(text, 1, end), end) # "]"
                            ELSE ~reg_name(substr(text, 1, end)),
              host |-> substr(text, 1, end),
              port |-> p.port ] ]) ]) ])

\* decimal digits as a number
RECURSIVE int_upto(_, _)
int_upto(digits, n) ==
    IF n = 0 THEN 0
    ELSE 10 * int_upto(digits, n - 1) + (find(DecDigits, Char(digits, n), 1) - 1)

\* the position of the ":" that ends a scheme of the characters chars at the
\* start of u, 0 without one
scheme_end(u, chars) ==
    Let1([ i \in { find(u, ":", 1) } |->
        IF i > 1 /\ is_alpha(Char(u, 1)) /\ \A k \in 2..(i - 1) : Char(u, k) \in chars
        THEN i ELSE 0 ])

\* the first position >= i of u that holds one of chars, Len(u) + 1 if none
first_of(u, chars, i) ==
    IF \A k \in i..Len(u) : Char(u, k) \notin chars THEN Len(u) + 1
    ELSE CHOOSE k \in i..Len(u) :
            /\ Char(u, k) \in chars
            /\ \A j \in i..(k - 1) : Char(u, j) \notin chars

\* urllib3 _URI_RE matched on u, as positions: colon of the ":" after the
\* scheme (0 without scheme), slash of the end of "//" and authority (0
\* without them), path_at, query_at and fragment_at of the starts of the path
\* and of what follows it
uri_positions(u) ==
    Let1([ colon \in { scheme_end(u, chars_of(SchemeChars)) } |->
    Let1([ slash \in { IF substr(u, colon + 1, colon + 2) = "//"
                       THEN first_of(u, { "\\", "/", "?", "#" }, colon + 3) ELSE 0 } |->
    Let1([ query_at \in { first_of(u, { "?", "#" }, IF slash = 0 THEN colon + 1 ELSE slash) } |->
        [ colon |-> colon,
          slash |-> slash,
          path_at |-> IF slash = 0 THEN colon + 1 ELSE slash,
          query_at |-> query_at,
          fragment_at |-> IF Char(u, query_at) = "?" THEN first_of(u, { "#" }, query_at)
                          ELSE query_at ] ]) ]) ])

\* the groups of urllib3 _URI_RE matched on u: [scheme, authority, path,
\* query, fragment], the scheme in lower case and the authority "" without one
uri_groups(u) ==
    Let1([ at \in { uri_positions(u) } |->
        [ scheme |-> IF at.colon = 0 THEN None ELSE Some(lower(substr(u, 1, at.colon - 1))),
          authority |-> IF at.slash = 0 THEN "" ELSE substr(u, at.colon + 3, at.slash - 1),
          path |-> substr(u, at.path_at, at.query_at - 1),
          query |-> IF Char(u, at.query_at) = "?"
                    THEN Some(substr(u, at.query_at + 1, at.fragment_at - 1)) ELSE None,
          fragment |-> IF Char(u, at.fragment_at) = "#"
                       THEN Some(substr(u, at.fragment_at + 1, Len(u))) ELSE None ] ])

\* the authority at its last "@" and _HOST_PORT_RE on what follows: [raised,
\* auth, host, port], auth being None when nothing stands before the "@"
authority_parts(authority) ==
    IF authority = "" THEN [ raised |-> FALSE, auth |-> None, host |-> None, port |-> None ]
    ELSE Let1([ at \in { rfind(authority, "@") } |->
         Let1([ hp \in { host_port(substr(authority, at + 1, Len(authority))) } |->
             [ raised |-> hp.raised,
               auth |-> IF at <= 1 THEN None ELSE Some(substr(authority, 1, at - 1)),
               host |-> Some(hp.host),
               port |-> hp.port ] ]) ])

\* the scheme is none or one of urllib3 NORMALIZABLE_SCHEMES
is_normalizable(scheme) == scheme \in { None, Some("http"), Some("https") }

\* urllib3.util.parse_url: [raised, scheme, auth, host, port, path, query,
\* fragment], a part that the URL has not got being None; raised stands for
\* LocationParseError
parse_url(url) ==
    LET absent == [ raised |-> FALSE, scheme |-> None, auth |-> None, host |-> None,
                    port |-> None, path |-> None, query |-> None, fragment |-> None ]
        failed == [ absent EXCEPT !.raised = TRUE ]
    IN
    IF url = "" THEN absent
    ELSE
    Let1([ m \in { uri_groups(IF \/ Char(url, 1) = "/"
                                 \/ scheme_end(url, chars_of(UpperChars \o LowerChars
                                                              \o DecDigits \o "+-")) > 0
                              THEN url ELSE "//" \o url) } |->
    Let1([ a \in { authority_parts(m.authority) } |->
    Let1([ n \in { [ normalize_uri |-> is_normalizable(m.scheme),
                     path |-> IF is_normalizable(m.scheme) /\ m.path # ""
                              THEN encode_invalid_chars(remove_path_dot_segments(m.path),
                                                        PathChars)
                              ELSE m.path,
                     host |-> IF a.raised THEN [ raised |-> TRUE, value |-> None ]
                              ELSE normalize_host(a.host, m.scheme),
                     port |-> IF a.raised \/ a.port \in { None, Some("") } THEN None
                              ELSE Some(int_upto(a.port[1], Len(a.port[1]))) ] } |->
        IF a.raised \/ n.host.raised \/ (n.port # None /\ n.port[1] > 65535) THEN failed
        ELSE [ raised |-> FALSE,
               scheme |-> m.scheme,
               auth |-> IF n.normalize_uri /\ a.auth # None
                        THEN Some(encode_invalid_chars(a.auth[1], UserinfoChars))
                        ELSE a.auth,
               host |-> n.host.value,
               port |-> n.port,
               path |-> IF n.path = ""
                        THEN (IF m.query # None \/ m.fragment # None THEN Some("") ELSE None)
                        ELSE Some(IF Char(n.path, 1) # "/" THEN "/" \o n.path ELSE n.path),
               query |-> IF n.normalize_uri /\ m.query \notin { None, Some("") }
                         THEN Some(encode_invalid_chars(m.query[1], QueryChars))
                         ELSE m.query,
               fragment |-> IF n.normalize_uri /\ m.fragment \notin { None, Some("") }
                            THEN Some(encode_invalid_chars(m.fragment[1], QueryChars))
                            ELSE m.fragment ] ]) ]) ])

\* str.isalnum() of the characters up to U+00FF
AlnumChars ==
    UpperChars \o LowerChars \o DecDigits \o "ª²³µ¹º¼½¾"
    \o "ÀÁÂÃÄÅÆÇÈÉÊËÌÍÎÏÐÑÒÓÔÕÖØÙÚÛÜÝÞßàáâãäåæçèéêëìíîïðñòóôõöøùúûüýþÿ"

\* requests.utils.unquote_unreserved, one of the parts between the "%" of
\* the URI: [raised, text], text being the part with the "%" before it,
\* decoded when the part starts with the hex digits of an unreserved
\* character; the first part has no "%" before it
unquote_part(part, first) ==
    Let1([ h \in { substr(part, 1, 2) } |->
        IF first THEN [ raised |-> FALSE, text |-> part ]
        ELSE IF ~(Len(h) = 2 /\ all_in(h, AlnumChars))
        THEN [ raised |-> FALSE, text |-> "%" \o part ]
        ELSE IF ~all_in(h, HexDigits) THEN [ raised |-> TRUE, text |-> "" ]
        ELSE Let1([ n \in { 16 * (find(HexDigits, upper(Char(h, 1)), 1) - 1)
                               + (find(HexDigits, upper(Char(h, 2)), 1) - 1) } |->
             Let1([ c \in { IF n \in DOMAIN Latin1 THEN Latin1[n] ELSE "" } |->
                 IF c # "" /\ contains(UnreservedChars, c)
                 THEN [ raised |-> FALSE, text |-> c \o substr(part, 3, Len(part)) ]
                 ELSE [ raised |-> FALSE, text |-> "%" \o part ] ]) ]) ])

\* requests.utils.unquote_unreserved: [raised, value]; the percent-encodings
\* of unreserved characters are decoded; raised stands for InvalidURL
unquote_unreserved(uri) ==
    Let1([ parts \in { split(uri, "%") } |->
    Let1([ unquoted \in { [ i \in 1..Len(parts) |-> unquote_part(parts[i], i = 1) ] } |->
        [ raised |-> \E i \in 1..Len(unquoted) : unquoted[i].raised,
          value |-> join("", [ i \in 1..Len(unquoted) |-> unquoted[i].text ]) ] ]) ])

\* requests.utils.requote_uri
requote_uri(uri) ==
    Let1([ unquoted \in { unquote_unreserved(uri) } |->
        IF unquoted.raised THEN quote(uri, "!#$&'()*+,/:;=?@[]~")
        ELSE quote(unquoted.value, "!#$%&'()*+,/:;=?@[]~") ])

\* PreparedRequest.prepare_url and Session.get_adapter: [raised, value],
\* value being the URL that the request is sent to.  A URL whose scheme is
\* not http or https ends in an exception in the one or in the other
prepare_url(url) ==
    Let1([ u \in { lstrip(url, Whitespace) } |->
        IF contains(u, ":") /\ lower(substr(u, 1, 4)) # "http"
        THEN [ raised |-> TRUE, value |-> "" ]
        ELSE Let1([ p \in { parse_url(u) } |->
             IF \/ p.raised
                \/ p.scheme \notin { Some("http"), Some("https") }
                \/ p.host \in { None, Some("") }
                \/ Char(p.host[1], 1) \in { "*", "." }
             THEN [ raised |-> TRUE, value |-> "" ]
             ELSE [ raised |-> FALSE,
                    value |-> requote_uri(urlunparse(
                       p.scheme[1],
                       (IF p.auth = None THEN "" ELSE p.auth[1] \o "@")
                          \o p.host[1]
                          \o (IF p.port \in { None, Some(0) } THEN ""
                              ELSE ":" \o ToString(p.port[1])),
                       IF p.path \in { None, Some("") } THEN "/" ELSE p.path[1],
                       "",
                       IF p.query = None THEN "" ELSE p.query[1],
                       IF p.fragment = None THEN "" ELSE p.fragment[1])) ] ]) ])

(***************************************************************************)
(* The fetch layer under a deterministic stub of the network, the browser  *)
(* and Tk.  A document (html) is a record of what BeautifulSoup finds in   *)
(* it: the raw text that markers are searched in, the title, the lang of   *)
(* the root element, the content attributes of the robots meta tags (in    *)
(* document order) and the <link rel="alternate"> elements; an absent tag  *)
(* or attribute is None.  The title is None without a <title> tag and      *)
(* Some(soup.title.string) with one, where the string is None again for a  *)
(* tag without text.                                                       *)
(***************************************************************************)
UrlOk == "http://h/ok"

UrlDown == "http://h/down"

UrlBad == "http://h/bad"

UrlCf == "http://h/cf"

\* the URLs that the runs are given
Urls == { UrlOk, UrlDown, UrlBad, UrlCf }

UrlJs == "http://h/js"

UrlWall == "http://h/wall"

\* a URL that the server redirects to UrlOk
UrlOld == "http://h/old"

\* a URL that the server answers with status 404
UrlGone == "http://h/gone"

\* a URL that the server answers with a page and a status beyond 599
UrlOdd == "http://h/odd"

\* the URLs that the stub serves
StubUrls == Urls \cup { UrlJs, UrlWall, UrlOld, UrlGone, UrlOdd }

\* fetch_http, line 401: the URL of the request made before the one of the page
UrlGoogle == "https://www.google.com/"

\* the URLs that no request reaches
Unreachable == { UrlDown, UrlJs }

\* the networks of the stub, each the set of the URLs that no request
\* reaches: with and without a way to UrlGoogle
Networks == { Unreachable, Unreachable \cup { UrlGoogle } }

Doc(text, title, lang, robots, links) ==
    [ text |-> text, title |-> title, lang |-> lang, robots |-> robots, links |-> links ]

Link(hreflang, href) == [ hreflang |-> hreflang, href |-> href ]

\* the document served at url
PageOf(url) ==
    CASE url = UrlOk ->
            Doc("<html>ok</html>", Some(Some("Ok")), Some("en"), << >>,
                << Link(Some("EN"), Some("/ok/")),
                   Link(Some("english-us-x"), Some("http://h/ok?v=1")),
                   Link(Some("de"), Some("http://h/de")),
                   Link(Some("x-default"), Some("")) >>)
      [] url = UrlBad ->
            Doc("<html>bad</html>", None, None, << Some("NOINDEX, follow") >>,
                << Link(Some("en"), Some("http://[x")) >>)
      [] url = UrlCf ->
            Doc("<html>Checking your browser - Cloudflare</html>", Some(Some("Wait")), None,
                << >>, << >>)
      [] url = UrlWall ->
            Doc("<html>Access Denied</html>", Some(Some("Denied")), None, << >>, << >>)
      [] url = UrlGone ->
            Doc("<html>Not Found</html>", Some(Some("Not Found")), None, << >>, << >>)
      [] url = UrlOdd ->
            Doc("<html>odd</html>", Some(Some("Odd")), Some("en"), << >>, << >>)
      [] OTHER ->
            Doc("<html></html>", None, None, << >>, << >>)

\* the document the browser renders at url
RenderedOf(url) ==
    CASE url = UrlCf ->
            Doc("<html>cf</html>", Some(Some("Cf")), Some("fr"), << Some("index") >>,
                << Link(Some("fr-FR"), Some("http://h/cf/")) >>)
      [] url = UrlJs ->
            Doc("<html>js</html>", Some(Some("Js")), Some("en"), << >>,
                << Link(Some("en"), Some("http://h/js")) >>)
      [] url = UrlWall ->
            Doc("<html>Solve the CHALLENGE</html>", Some(Some("Wall")), None, << >>, << >>)
      [] OTHER -> PageOf(url)

\* None where a response dict or a document is expected
NoResponse == [ method |-> "None" ]

\* the URL that a request for url ends at, the redirects followed
final_url(url) == IF url = UrlOld THEN UrlOk ELSE url

\* the status that the server answers a request for url with
status_code(url) ==
    CASE url = UrlGone -> 404
      [] url = UrlOdd -> 600
      [] OTHER -> 200

\* requests: what session.get(url, allow_redirects=True) does on a network
\* where no request reaches the URLs of down: raises (the URL cannot be
\* prepared, no connection) or answers with the URL the request ended at,
\* a status and a document
http_get(url, down) ==
    Let1([ request \in { prepare_url(url) } |->
        IF request.raised \/ request.value \in down \/ final_url(request.value) \in down
        THEN [ raised |-> TRUE, url |-> "", status |-> 0, html |-> NoResponse ]
        ELSE Let1([ u \in { final_url(request.value) } |->
                 [ raised |-> FALSE, url |-> u, status |-> status_code(u),
                   html |-> PageOf(u) ] ]) ])

\* selenium: what driver.get(url) does: raises (a URL without a scheme is an
\* invalid argument, UrlDown is not reached) or loads the rendered document
\* of the URL the browser ends at
driver_get(url) ==
    Let1([ u \in { urlsplit(url) } |->
        IF u.raised \/ u.scheme = "" \/ url = UrlDown
        THEN [ raised |-> TRUE, url |-> "", html |-> NoResponse ]
        ELSE [ raised |-> FALSE, url |-> final_url(url), html |-> RenderedOf(final_url(url)) ] ])

HttpUserAgent == "Chrome/stub"

BrowserUserAgent == "HeadlessChrome/stub"

\* fetch_http on a network where no request reaches the URLs of down:
\* [raised, value]; value is the response dict or None.  Every exception of
\* the two requests and of raise_for_status is caught (line 422), and
\* self.log returns while the Tk main loop runs, so nothing is raised
fetch_http(url, down) ==
    IF http_get(UrlGoogle, down).raised THEN [ raised |-> FALSE, value |-> NoResponse ]
    ELSE Let1([ response \in { http_get(url, down) } |->
             IF response.raised \/ (response.status >= 400 /\ response.status < 600)
             THEN [ raised |-> FALSE, value |-> NoResponse ]
             ELSE [ raised |-> FALSE,
                    value |-> [ method |-> "HTTP", url |-> response.url,
                                status |-> response.status, html |-> response.html,
                                user_agent |-> HttpUserAgent ] ] ])

\* fetch_browser, line 431: the challenge test
is_challenge(page_source) == in_str("challenge", lower(page_source.text))

\* fetch_browser, lines 439-446: the response dict
browser_response(current_url, page_source) ==
    [ method |-> "Browser", url |-> current_url, status |-> 200, html |-> page_source,
      user_agent |-> BrowserUserAgent ]

\* fetch_browser with the driver to itself: [raised, value]; value is the
\* response dict or None
fetch_browser(url) ==
    Let1([ r \in { driver_get(url) } |->
        IF r.raised \/ is_challenge(r.html) THEN [ raised |-> FALSE, value |-> NoResponse ]
        ELSE [ raised |-> FALSE, value |-> browser_response(r.url, r.html) ] ])

\* is_blocked
is_blocked(response) ==
    Let1([ r \in { response } |->
        IF r = NoResponse THEN TRUE
        ELSE \/ r.status = 403
             \/ in_str("access denied", lower(r.html.text))
             \/ in_str("cloudflare", lower(r.html.text)) ])

\* try_all_methods that falls back to the browser only when the direct
\* request returned nothing
try_all_methods_unblocked(url, down) ==
    Let1([ response \in { fetch_http(url, down) } |->
        IF response.raised
        THEN [ raised |-> TRUE, value |-> NoResponse, browser |-> FALSE ]
        ELSE IF response.value = NoResponse
        THEN Let1([ r \in { fetch_browser(url) } |->
                 [ raised |-> r.raised, value |-> r.value, browser |-> TRUE ] ])
        ELSE [ raised |-> FALSE, value |-> response.value, browser |-> FALSE ] ])

\* try_all_methods: [raised, value, browser]; browser says that line 380 was
\* reached, where fetch_browser is called
try_all_methods(url, down) ==
    Let1([ response \in { fetch_http(url, down) } |->
        IF response.raised
        THEN [ raised |-> TRUE, value |-> NoResponse, browser |-> FALSE ]
        ELSE IF response.value = NoResponse \/ is_blocked(response.value)
        THEN Let1([ r \in { fetch_browser(url) } |->
                 [ raised |-> r.raised, value |-> r.value, browser |-> TRUE ] ])
        ELSE [ raised |-> FALSE, value |-> response.value, browser |-> FALSE ] ])

\* the methods offered by method_combo
Methods == { "Auto", "Direct HTTP", "Browser Automation" }

\* worker_thread, lines 211-218: the fetch the selected method stands for
dispatch(method, url, down) ==
    IF method = "Auto" THEN try_all_methods(url, down)
    ELSE IF method = "Direct HTTP" THEN fetch_http(url, down)
    ELSE fetch_browser(url)

(***************************************************************************)
(* process_response: the record of a fetched page.                         *)
(***************************************************************************)
\* dict.get(key, default) / attribute lookup with a default
or_default(v, default) == IF v = None THEN default ELSE v[1]

\* check_indexable
check_indexable(soup) ==
    ~(Len(soup.robots) > 0 /\ in_str("noindex", lower(or_default(soup.robots[1], ""))))

\* worker_thread, lines 221-230: the record of a URL that could not be fetched
failed_row(url) ==
    [ URL |-> url, Status |-> "Failed", Title |-> Some(""), Language |-> "",
      Indexable |-> "no", Method |-> "Failed", UserAgent |-> "N/A",
      Issues |-> "Failed to fetch URL" ]

\* process_response, lines 278-287: one alternate link; acc = [raised, tags,
\* issues] is what the links before it gave
scan_link(url, link, acc) ==
    Let1([ a \in { << lower(or_default(link.hreflang, "")),
                      urljoin(url, or_default(link.href, "")) >> } |->
        IF a[2].raised THEN [ acc EXCEPT !.raised = TRUE ]
        ELSE IF ~(a[1] # "" /\ a[2].value # "") THEN acc
        ELSE IF normalize_url_raises(a[2].value) \/ normalize_url_raises(url)
        THEN [ acc EXCEPT !.raised = TRUE ]
        ELSE [ raised |-> FALSE,
               tags |-> Append(acc.tags, << a[1], a[2].value >>),
               issues |-> acc.issues
                    \o (IF ~validate_hreflang(a[1])
                        THEN << "Invalid hreflang: " \o a[1] >> ELSE << >>)
                    \o (IF ~url_matches(a[2].value, url)
                        THEN << "URL mismatch: " \o a[2].value >> ELSE << >>) ] ])

RECURSIVE scan_links(_, _, _, _)
\* process_response, lines 277-287: the loop over the alternate links from
\* the k-th on
scan_links(url, links, k, acc) ==
    IF k > Len(links) \/ acc.raised THEN acc
    ELSE Let1([ next \in { scan_link(url, links[k], acc) } |->
             scan_links(url, links, k + 1, next) ])

\* the number of (hreflang, URL) column pairs of a record
HreflangSlots == 3

\* process_response, lines 266-308: [raised, value]; value is the row that
\* add_result_row receives
process_response(url, response) ==
    Let1([ scan \in { scan_links(url, response.html.links, 1,
                                 [ raised |-> FALSE, tags |-> << >>, issues |-> << >> ]) } |->
        LET soup == response.html
            title == or_default(soup.title, Some("No Title"))
            lang == or_default(soup.lang, "-")
            indexable == IF check_indexable(soup) THEN "yes" ELSE "no"
            slot(i) == IF i <= Len(scan.tags) THEN scan.tags[i] ELSE << "", "" >>
        IN  IF scan.raised THEN [ raised |-> TRUE, value |-> NoResponse ]
            ELSE [ raised |-> FALSE,
                   value |-> [ URL |-> url,
                               Status |-> ToString(response.status) \o " OK",
                               Title |-> title, Language |-> lang,
                               Indexable |-> indexable, Method |-> response.method,
                               UserAgent |-> response.user_agent,
                               Issues |-> IF Len(scan.issues) > 0
                                          THEN join(", ", scan.issues) ELSE "Valid",
                               hreflangs |-> [ i \in 1..HreflangSlots |-> slot(i) ] ] ] ])

(***************************************************************************)
(* The stub is deterministic, so what a fetch returns and what             *)
(* process_response makes of it are tabulated once for the URLs of the     *)
(* catalogue; the actions below look the values up.                        *)
(***************************************************************************)
\* dispatch(method, url), tabulated; the runs are made on the network where
\* UrlGoogle is reached
Fetched == [ m \in Methods |-> [ u \in Urls |-> dispatch(m, u, Unreachable) ] ]

\* worker_thread, lines 211-218: the fetch of url with the selected method
\* gets as far as loading url in the browser (fetch_browser, line 428).
\* Every text of the combo box other than "Auto" and "Direct HTTP" selects
\* fetch_browser
loads_browser(method, url, down) ==
    /\ ~driver_get(url).raised
    /\ IF method = "Auto" THEN try_all_methods(url, down).browser
       ELSE method # "Direct HTTP"

\* loads_browser(method, url), tabulated
LoadsBrowser == [ m \in Methods |-> [ u \in Urls |-> loads_browser(m, u, Unreachable) ] ]

\* is_challenge of the page that the driver shows at u, tabulated
Challenge == [ u \in Urls |-> is_challenge(RenderedOf(u)) ]

\* the (url, response) pairs that a worker can hand to process_response: url
\* with what the fetch of url returned, or with a Browser response whose URL
\* and page were read from the shared driver
Fetches ==
    ( { << u, Fetched[m][u].value >> : m \in Methods, u \in Urls }
      \cup { << u, browser_response(v, RenderedOf(w)) >> : u, v, w \in Urls } )
    \ (Urls \X { NoResponse })

\* process_response(url, response), tabulated
Processed == [ f \in Fetches |-> process_response(f[1], f[2]) ]

(***************************************************************************)
(* The batch runner.  Worker threads run worker_thread one statement at a  *)
(* time; the Tk main loop runs the button handlers and the callbacks that  *)
(* the workers schedule with root.after(0, ...) one at a time, the         *)
(* callbacks in the order they were scheduled.  The progress bar, the      *)
(* status bar and the results table are widgets outside the model, so the  *)
(* update_progress and log callbacks, which only write them, are left out. *)
(***************************************************************************)
\* the largest value of the Threads spin box that is explored
MaxThreads == 2

\* the longest URL list that is explored
MaxUrls == 2

\* the number of runs (start_analysis past its input checks) that is explored
MaxRuns == 2

VARIABLES
    url_entry,          \* the Single URL entry, stripped
    url_file,           \* the stripped non-empty lines of the file behind bulk_entry
    threads_spin,       \* the text of the Threads spin box
    method_combo,       \* the Method combo box
    run_btn,            \* state of run_single_btn and run_bulk_btn
    stop_btn,           \* state of stop_btn
    export_btn,         \* state of export_btn
    task_queue,         \* queue.Queue: the items, each with the run that put it
    unfinished_tasks,   \* queue.Queue.unfinished_tasks
    processing,         \* self.processing
    current_url_index,  \* self.current_url_index
    total_urls,         \* self.total_urls
    results,            \* self.results
    threads,            \* the worker threads: position and locals of each
    main,               \* the main thread: its position in start_analysis, and urls
    events,             \* the callbacks scheduled with root.after(0, ...)
    driver,             \* self.driver: the URL of the page it shows ("": none yet)
    runs,               \* history: the number of runs started
    run_urls,           \* history: the URL list of the latest run
    cancelled,          \* history: stop_processing was called in the latest run
    dequeued,           \* history: successful get_nowait calls since the latest start
    claimed,            \* history: the URLs those calls returned
    stop_k,             \* history: dequeued, when stop_processing was called
    call,               \* a call of the validator: function and arguments
    ret                 \* its return value

gui == << url_entry, url_file, threads_spin, method_combo >>

buttons == << run_btn, stop_btn, export_btn >>

history == << runs, run_urls, cancelled, dequeued, claimed, stop_k >>

validator == << call, ret >>

vars == << url_entry, url_file, threads_spin, method_combo, run_btn, stop_btn, export_btn,
           task_queue, unfinished_tasks, processing, current_url_index, total_urls,
           results, threads, main, events, driver, runs, run_urls, cancelled, dequeued, claimed,
           stop_k, call, ret >>

ThreadIds == 1..(MaxRuns * MaxThreads)

\* a thread that has not been started
\* (url, idx, brk, current_url and response are its locals; run and stale
\* are history: the run that put the URL it holds, and whether that was an
\* earlier run than the one under way when it was dequeued)
IdleThread ==
    [ pc |-> "idle", url |-> "", run |-> 0, stale |-> FALSE, idx |-> 0, brk |-> FALSE,
      current_url |-> "", response |-> NoResponse ]

\* the main thread between two handlers
IdleMain == [ pc |-> "idle", urls |-> << >>, i |-> 0 ]

RECURSIVE SeqsOver(_, _)
\* the sequences over S of length n
SeqsOver(S, n) ==
    IF n = 0 THEN { << >> }
    ELSE { Append(q, x) : q \in SeqsOver(S, n - 1), x \in S }

\* every URL list of at most MaxUrls lines
AllLists == UNION { SeqsOver(Urls, n) : n \in 0..MaxUrls }

min(a, b) == IF a < b THEN a ELSE b

\* the lines of the file that bulk_entry names at first
FileLines == << UrlBad, UrlDown, UrlOk, UrlCf >>

\* the files that the Browse dialog offers: their stripped non-empty lines
BrowseFiles == { SubSeq(FileLines, 1, min(MaxUrls, Len(FileLines))), << UrlOk >> }

\* __init__ (setup_gui included) followed by the user filling in the form
InitRunner ==
    /\ run_btn = "normal"
    /\ stop_btn = "disabled"
    /\ export_btn = "disabled"
    /\ task_queue = << >>
    /\ unfinished_tasks = 0
    /\ processing = FALSE
    /\ current_url_index = 0
    /\ total_urls = 0
    /\ results = << >>
    /\ threads = [ t \in ThreadIds |-> IdleThread ]
    /\ main = IdleMain
    /\ events = << >>
    /\ driver = ""
    /\ runs = 0
    /\ run_urls = << >>
    /\ cancelled = FALSE
    /\ dequeued = 0
    /\ claimed = {}
    /\ stop_k = 0

NoCall == [ fn |-> "none" ]

NoReturn == [ done |-> FALSE ]

\* finish_processing
finish_processing ==
    /\ processing' = FALSE
    /\ run_btn' = "normal"
    /\ stop_btn' = "disabled"
    /\ export_btn' = "normal"

\* add_result_row that writes the row over the last one of self.results
add_result_row_over(rows, result) ==
    IF rows = << >> THEN << result >> ELSE [ rows EXCEPT ![Len(rows)] = result ]

\* add_result_row: the row is appended to self.results
add_result_row(rows, result) == Append(rows, result)

\* sys.get_int_max_str_digits(), as the interpreter starts with: int() takes
\* no text of more digits
IntMaxStrDigits == 4300

\* start_analysis, line 199: min(int(self.threads_spin.get()), len(urls)) as
\* [raised, value]; int() raises ValueError for a text that is not an integer
\* literal (white space, a sign, digits with single underscores between
\* them) or for one of more than IntMaxStrDigits digits, the underscores
\* not counted; the separators U+001C..U+001F are no white space to int().  The
\* value of a literal without a minus sign is only followed up to
\* len(urls), which is the minimum from there on
num_threads(spin, urls) ==
    LET space == Whitespace \ { Latin1[i] : i \in 28..31 }
        RECURSIVE last(_, _)
        last(s, n) == IF n > 0 /\ Char(s, n) \in space THEN last(s, n - 1) ELSE n
        stripped == lstrip(substr(spin, 1, last(spin, Len(spin))), space)
        signed == stripped # "" /\ Char(stripped, 1) \in { "+", "-" }
        body == IF signed THEN substr(stripped, 2, Len(stripped)) ELSE stripped
        digit(i) == i >= 1 /\ i <= Len(body) /\ contains(DecDigits, Char(body, i))
        literal ==
            /\ body # ""
            /\ \A i \in 1..Len(body) :
                  digit(i) \/ (Char(body, i) = "_" /\ digit(i - 1) /\ digit(i + 1))
        digits == remove_chars(body, { "_" })
        RECURSIVE number(_, _, _)
        number(i, acc, enough) ==
            IF i > Len(digits) \/ (enough >= 0 /\ acc >= enough) THEN acc
            ELSE number(i + 1, 10 * acc + (find(DecDigits, Char(digits, i), 1) - 1), enough)
    IN  IF ~literal \/ Len(digits) > IntMaxStrDigits THEN [ raised |-> TRUE, value |-> 0 ]
        ELSE [ raised |-> FALSE,
               value |-> IF Char(stripped, 1) = "-"
                         THEN min(0 - number(1, 0, 0 - 1), Len(urls))
                         ELSE min(number(1, 0, Len(urls)), Len(urls)) ]

\* start_analysis, lines 161-181: the URLs to process; << >> stands for the
\* early returns after an error box
urls_of(single) ==
    IF single THEN (IF url_entry = "" THEN << >> ELSE << url_entry >>) ELSE url_file

\* start_analysis(single) (the Analyze Single and Analyze Bulk buttons),
\* lines 158-184
StartAnalysis(single) ==
    /\ main.pc = "idle"
    /\ run_btn = "normal"
    /\ runs < MaxRuns
    /\ results' = << >>
    /\ LET urls == urls_of(single) IN
       IF urls = << >>
       THEN UNCHANGED << current_url_index, total_urls, main, runs, run_urls, cancelled,
                         dequeued, claimed, stop_k >>
       ELSE /\ total_urls' = Len(urls)
            /\ current_url_index' = 0
            /\ main' = [ pc |-> "processing", urls |-> urls, i |-> 1 ]
            /\ runs' = runs + 1
            /\ run_urls' = urls
            /\ cancelled' = FALSE
            /\ dequeued' = 0
            /\ claimed' = {}
            /\ stop_k' = 0
    /\ UNCHANGED << gui, driver, buttons, task_queue, unfinished_tasks, processing, threads,
                    events, validator >>

\* start_analysis, lines 185-194
StartProcessing ==
    /\ main.pc = "processing"
    /\ processing' = TRUE
    /\ run_btn' = "disabled"
    /\ stop_btn' = "normal"
    /\ export_btn' = "disabled"
    /\ main' = [ main EXCEPT !.pc = "put" ]
    /\ UNCHANGED << gui, driver, task_queue, unfinished_tasks, current_url_index, total_urls,
                    results, threads, events, history, validator >>

\* start_analysis, lines 196-197: one turn of the loop
StartPut ==
    /\ main.pc = "put"
    /\ task_queue' = Append(task_queue, [ url |-> main.urls[main.i], run |-> runs ])
    /\ unfinished_tasks' = unfinished_tasks + 1
    /\ main' = IF main.i < Len(main.urls) THEN [ main EXCEPT !.i = @ + 1 ]
               ELSE [ main EXCEPT !.pc = "threads" ]
    /\ UNCHANGED << gui, driver, buttons, processing, current_url_index, total_urls, results,
                    threads, events, history, validator >>

\* start_analysis, lines 199-201; the ValueError of int() ends the handler
\* before a thread is started
StartThreads ==
    /\ main.pc = "threads"
    /\ LET n == num_threads(threads_spin, main.urls) IN
       threads' = IF n.raised THEN threads
                  ELSE [ t \in ThreadIds |->
                           IF /\ t > (runs - 1) * MaxThreads
                              /\ t <= (runs - 1) * MaxThreads + n.value
                           THEN [ IdleThread EXCEPT !.pc = "while" ]
                           ELSE threads[t] ]
    /\ main' = IdleMain
    /\ UNCHANGED << gui, driver, buttons, task_queue, unfinished_tasks, processing,
                    current_url_index, total_urls, results, events, history, validator >>

\* browse_file (the Browse button): the path of another file is put in
\* bulk_entry, unless the dialog is cancelled
BrowseFile ==
    /\ main.pc = "idle"
    /\ runs < MaxRuns
    /\ \E file \in BrowseFiles : url_file' = file
    /\ UNCHANGED << url_entry, threads_spin, method_combo, main, driver, buttons, task_queue,
                    unfinished_tasks, processing, current_url_index, total_urls, results,
                    threads, events, history, validator >>

\* worker_thread, line 204: while self.processing ...
WorkerWhile(t) ==
    /\ threads[t].pc = "while"
    /\ threads' = [ threads EXCEPT ![t].pc = IF processing THEN "empty" ELSE "after" ]
    /\ UNCHANGED << gui, main, driver, buttons, task_queue, unfinished_tasks, processing,
                    current_url_index, total_urls, results, events, history, validator >>

\* worker_thread, line 204: ... and not self.task_queue.empty()
WorkerEmpty(t) ==
    /\ threads[t].pc = "empty"
    /\ threads' = [ threads EXCEPT ![t].pc = IF task_queue # << >> THEN "get" ELSE "after" ]
    /\ UNCHANGED << gui, main, driver, buttons, task_queue, unfinished_tasks, processing,
                    current_url_index, total_urls, results, events, history, validator >>

\* worker_thread, line 206: url = self.task_queue.get_nowait(); on queue.Empty
\* (line 235) the loop is left through the finally clause
WorkerGet(t) ==
    /\ threads[t].pc = "get"
    /\ IF task_queue = << >>
       THEN /\ threads' = [ threads EXCEPT ![t].pc = "finally", ![t].brk = TRUE ]
            /\ UNCHANGED << task_queue, dequeued, claimed >>
       ELSE /\ threads' = [ threads EXCEPT ![t].pc = "load",
                                            ![t].url = Head(task_queue).url,
                                            ![t].run = Head(task_queue).run,
                                            ![t].stale = Head(task_queue).run < runs ]
            /\ task_queue' = Tail(task_queue)
            /\ dequeued' = dequeued + 1
            /\ claimed' = claimed \cup { Head(task_queue).url }
    /\ UNCHANGED << gui, main, driver, buttons, unfinished_tasks, processing, current_url_index,
                    total_urls, results, events, runs, run_urls, cancelled, stop_k,
                    validator >>

\* worker_thread, line 207: self.current_url_index += 1, the read
WorkerLoad(t) ==
    /\ threads[t].pc = "load"
    /\ threads' = [ threads EXCEPT ![t].pc = "store", ![t].idx = current_url_index ]
    /\ UNCHANGED << gui, main, driver, buttons, task_queue, unfinished_tasks, processing,
                    current_url_index, total_urls, results, events, history, validator >>

\* worker_thread, line 207: self.current_url_index += 1, the write
WorkerStore(t) ==
    /\ threads[t].pc = "store"
    /\ current_url_index' = threads[t].idx + 1
    /\ threads' = [ threads EXCEPT ![t].pc = "fetch", ![t].idx = 0 ]
    /\ UNCHANGED << gui, main, driver, buttons, task_queue, unfinished_tasks, processing,
                    total_urls, results, events, history, validator >>

\* worker_thread, lines 209-218: the fetch, as far as it goes without the
\* driver's answers.  A fetch that gets as far as the browser loads the page
\* (fetch_browser, line 428) and stops here, at time.sleep(3); any other
\* returns its response or None (an exception, which the stub does not
\* raise, would leave only a log message: except Exception, line 237)
WorkerFetch(t) ==
    /\ threads[t].pc = "fetch"
    /\ LET url == threads[t].url
           response == Fetched[method_combo][url]
       IN  IF LoadsBrowser[method_combo][url]
           THEN /\ driver' = url
                /\ threads' = [ threads EXCEPT ![t].pc = "page_source" ]
           ELSE /\ threads' =
                     IF response.raised
                     THEN [ threads EXCEPT ![t] = [ IdleThread EXCEPT !.pc = "finally" ] ]
                     ELSE [ threads EXCEPT ![t].pc = "root_after",
                                           ![t].response = response.value ]
                /\ UNCHANGED driver
    /\ UNCHANGED << gui, main, buttons, task_queue, unfinished_tasks, processing,
                    current_url_index, total_urls, results, events, history, validator >>

\* fetch_browser, lines 431-433, after the sleep: the challenge test on the
\* page that the driver shows now; on a challenge page fetch_browser
\* returns None
WorkerPageSource(t) ==
    /\ threads[t].pc = "page_source"
    /\ threads' = IF Challenge[driver]
                  THEN [ threads EXCEPT ![t].pc = "root_after", ![t].response = NoResponse ]
                  ELSE [ threads EXCEPT ![t].pc = "current_url" ]
    /\ UNCHANGED << gui, main, driver, buttons, task_queue, unfinished_tasks, processing,
                    current_url_index, total_urls, results, events, history, validator >>

\* fetch_browser, line 441: self.driver.current_url, of the page that the
\* driver shows now
WorkerCurrentUrl(t) ==
    /\ threads[t].pc = "current_url"
    /\ threads' = [ threads EXCEPT ![t].pc = "html", ![t].current_url = driver ]
    /\ UNCHANGED << gui, main, driver, buttons, task_queue, unfinished_tasks, processing,
                    current_url_index, total_urls, results, events, history, validator >>

\* fetch_browser, line 443: self.driver.page_source, of the page that the
\* driver shows now; fetch_browser returns the response dict
WorkerHtml(t) ==
    /\ threads[t].pc = "html"
    /\ threads' = [ threads EXCEPT ![t].pc = "root_after",
                                   ![t].response = browser_response(threads[t].current_url,
                                                                    RenderedOf(driver)) ]
    /\ UNCHANGED << gui, main, driver, buttons, task_queue, unfinished_tasks, processing,
                    current_url_index, total_urls, results, events, history, validator >>

\* worker_thread, lines 220-233, with what the fetch returned: root.after
\* schedules add_result_row with the "Failed" row or process_response with
\* the response
WorkerAfter(t) ==
    /\ threads[t].pc = "root_after"
    /\ events' =
          IF threads[t].response = NoResponse
          THEN Append(events, [ fn |-> "add_result_row", url |-> threads[t].url,
                                arg |-> failed_row(threads[t].url) ])
          ELSE Append(events, [ fn |-> "process_response", url |-> threads[t].url,
                                arg |-> threads[t].response ])
    /\ threads' = [ threads EXCEPT ![t] = [ IdleThread EXCEPT !.pc = "finally" ] ]
    /\ UNCHANGED << gui, main, driver, buttons, task_queue, unfinished_tasks, processing,
                    current_url_index, total_urls, results, history, validator >>

\* worker_thread, line 240: self.task_queue.task_done() in the finally clause;
\* it raises ValueError, which ends the thread, when called more often than put
WorkerTaskDone(t) ==
    /\ threads[t].pc = "finally"
    /\ IF unfinished_tasks = 0
       THEN /\ threads' = [ threads EXCEPT ![t].pc = "crashed" ]
            /\ UNCHANGED unfinished_tasks
       ELSE /\ unfinished_tasks' = unfinished_tasks - 1
            /\ threads' = [ threads EXCEPT
                              ![t].pc = IF threads[t].brk THEN "after" ELSE "while",
                              ![t].brk = FALSE ]
    /\ UNCHANGED << gui, main, driver, buttons, task_queue, processing, current_url_index,
                    total_urls, results, events, history, validator >>

\* worker_thread, line 242: if self.task_queue.empty()
WorkerExitEmpty(t) ==
    /\ threads[t].pc = "after"
    /\ threads' = [ threads EXCEPT ![t].pc = IF task_queue = << >> THEN "schedule" ELSE "done" ]
    /\ UNCHANGED << gui, main, driver, buttons, task_queue, unfinished_tasks, processing,
                    current_url_index, total_urls, results, events, history, validator >>

\* worker_thread, line 243, and the end of the thread
WorkerExit(t) ==
    /\ threads[t].pc = "schedule"
    /\ events' = Append(events, [ fn |-> "finish_processing" ])
    /\ threads' = [ threads EXCEPT ![t].pc = "done" ]
    /\ UNCHANGED << gui, main, driver, buttons, task_queue, unfinished_tasks, processing,
                    current_url_index, total_urls, results, history, validator >>

\* the main loop runs a scheduled process_response(url, response); when it
\* raises, Tk reports the exception and no row is added
ProcessResponse ==
    /\ main.pc = "idle"
    /\ events # << >>
    /\ Head(events).fn = "process_response"
    /\ LET r == Processed[<< Head(events).url, Head(events).arg >>] IN
       results' = IF r.raised THEN results ELSE add_result_row(results, r.value)
    /\ events' = Tail(events)
    /\ UNCHANGED << gui, main, driver, buttons, task_queue, unfinished_tasks, processing,
                    current_url_index, total_urls, threads, history, validator >>

\* the main loop runs a scheduled add_result_row(result)
AddResultRow ==
    /\ main.pc = "idle"
    /\ events # << >>
    /\ Head(events).fn = "add_result_row"
    /\ results' = add_result_row(results, Head(events).arg)
    /\ events' = Tail(events)
    /\ UNCHANGED << gui, main, driver, buttons, task_queue, unfinished_tasks, processing,
                    current_url_index, total_urls, threads, history, validator >>

\* the main loop runs a scheduled finish_processing()
FinishProcessing ==
    /\ main.pc = "idle"
    /\ events # << >>
    /\ Head(events).fn = "finish_processing"
    /\ finish_processing
    /\ events' = Tail(events)
    /\ UNCHANGED << gui, main, driver, task_queue, unfinished_tasks, current_url_index, total_urls,
                    results, threads, history, validator >>

\* stop_processing (the Stop button)
StopProcessing ==
    /\ main.pc = "idle"
    /\ stop_btn = "normal"
    /\ finish_processing
    /\ cancelled' = TRUE
    /\ stop_k' = dequeued
    /\ UNCHANGED << gui, main, driver, task_queue, unfinished_tasks, current_url_index, total_urls,
                    results, threads, events, runs, run_urls, dequeued, claimed,
                    validator >>

Worker(t) ==
    \/ WorkerWhile(t)
    \/ WorkerEmpty(t)
    \/ WorkerGet(t)
    \/ WorkerLoad(t)
    \/ WorkerStore(t)
    \/ WorkerFetch(t)
    \/ WorkerPageSource(t)
    \/ WorkerCurrentUrl(t)
    \/ WorkerHtml(t)
    \/ WorkerAfter(t)
    \/ WorkerTaskDone(t)
    \/ WorkerExitEmpty(t)
    \/ WorkerExit(t)

MainLoop == ProcessResponse \/ AddResultRow \/ FinishProcessing

\* start_analysis from line 185 on
StartAnalysisRest == StartProcessing \/ StartPut \/ StartThreads

(***************************************************************************)
(* One run that is not cancelled: every URL list of at most MaxUrls lines, *)
(* every thread count and every method.                                    *)
(***************************************************************************)
InitRun ==
    /\ url_entry \in { "", UrlOk }
    /\ url_file \in AllLists
    /\ threads_spin \in { ToString(n) : n \in 1..MaxThreads }
    /\ method_combo \in Methods
    /\ InitRunner
    /\ call = NoCall
    /\ ret = NoReturn

FirstAnalysis == runs = 0 /\ \E single \in BOOLEAN : StartAnalysis(single)

NextRun ==
    \/ FirstAnalysis
    \/ StartAnalysisRest
    \/ \E t \in ThreadIds : Worker(t)
    \/ MainLoop

SpecRun == InitRun /\ [][NextRun]_vars

(***************************************************************************)
(* The application in use: up to MaxRuns runs, single or bulk, each of     *)
(* which the user may stop.  The spinbox is set to one worker per run, so  *)
(* the workers that run together are those of different runs.              *)
(***************************************************************************)
Init ==
    /\ url_entry = UrlCf
    /\ url_file = SubSeq(FileLines, 1, min(MaxUrls, Len(FileLines)))
    /\ threads_spin = "1"
    /\ method_combo = "Auto"
    /\ InitRunner
    /\ call = NoCall
    /\ ret = NoReturn

Next ==
    \/ \E single \in BOOLEAN : StartAnalysis(single)
    \/ StartAnalysisRest
    \/ BrowseFile
    \/ StopProcessing
    \/ \E t \in ThreadIds : Worker(t)
    \/ MainLoop

Spec == Init /\ [][Next]_vars

(***************************************************************************)
(* One run under fair scheduling: every started worker thread keeps        *)
(* running and the Tk main loop keeps running the callbacks scheduled with *)
(* root.after.  The Threads spinbox is an editable field whose text is not *)
(* validated against from_=1, so it may also hold 0.                       *)
(***************************************************************************)
InitLive ==
    /\ url_entry \in { "", UrlOk }
    /\ url_file \in AllLists
    /\ threads_spin \in { ToString(n) : n \in 0..MaxThreads } \cup { "x" }
    /\ method_combo \in Methods
    /\ InitRunner
    /\ call = NoCall
    /\ ret = NoReturn

Fairness ==
    /\ \A t \in ThreadIds : WF_vars(Worker(t))
    /\ WF_vars(MainLoop)
    /\ WF_vars(StartAnalysisRest)

SpecLive == InitLive /\ [][NextRun]_vars /\ Fairness

(***************************************************************************)
(* The validator alone: validate_hreflang and url_matches called on codes  *)
(* and on URLs put together from parts.                                    *)
(***************************************************************************)
\* the most '-'-separated parts of a code that is explored
MaxParts == 3

\* the most trailing slashes of a URL that is explored
MaxSlashes == 1

CodeParts == { "en", "EN", "english", "zz", "us", "US", "x", "default", "" }

Codes == { join("-", p) : p \in UNION { SeqsOver(CodeParts, n) : n \in 1..MaxParts } }

UrlParts ==
    [ scheme : { "http" }, host : { "h", "H" }, path : { "/p", "/q", "/p;k" },
      slashes : 0..MaxSlashes, query : { "", "?q=1" }, fragment : { "", "#f" } ]

RECURSIVE slashes(_)
slashes(n) == IF n = 0 THEN "" ELSE "/" \o slashes(n - 1)

\* the URL that the parts spell
url_of(p) ==
    p.scheme \o "://" \o p.host \o p.path \o slashes(p.slashes) \o p.query \o p.fragment

Calls ==
    { [ fn |-> "validate_hreflang", hreflang |-> c ] : c \in Codes }
    \cup { [ fn |-> "url_matches", href |-> a, base_url |-> b ] : a, b \in UrlParts }

InitValidator ==
    /\ url_entry = ""
    /\ url_file = << >>
    /\ threads_spin = "1"
    /\ method_combo = "Auto"
    /\ InitRunner
    /\ call \in Calls
    /\ ret = NoReturn

\* a call validate_hreflang(hreflang)
ValidateHreflang ==
    /\ call.fn = "validate_hreflang"
    /\ ~ret.done
    /\ ret' = [ done |-> TRUE, value |-> validate_hreflang(call.hreflang) ]
    /\ UNCHANGED << gui, main, driver, buttons, task_queue, unfinished_tasks, processing,
                    current_url_index, total_urls, results, threads, events, history,
                    call >>

\* a call url_matches(href, base_url), and the call with the arguments swapped
UrlMatches ==
    /\ call.fn = "url_matches"
    /\ ~ret.done
    /\ ret' = [ done |-> TRUE,
                value |-> url_matches(url_of(call.href), url_of(call.base_url)),
                converse |-> url_matches(url_of(call.base_url), url_of(call.href)) ]
    /\ UNCHANGED << gui, main, driver, buttons, task_queue, unfinished_tasks, processing,
                    current_url_index, total_urls, results, threads, events, history,
                    call >>

NextValidator == ValidateHreflang \/ UrlMatches

SpecValidator == InitValidator /\ [][NextValidator]_vars

(***************************************************************************)
(* The page analyzer alone: process_response called on the response for a  *)
(* page put together from alternate links and robots meta tags.            *)
(***************************************************************************)
\* the most <link rel="alternate"> elements of a page that is explored
MaxLinks == 4

\* the most robots meta tags of a page that is explored
MaxMetas == 2

PageUrl == "http://h/pg"

PageLinks ==
    { Link(Some("EN"), Some("/pg")), Link(Some("en-us-x"), Some("http://h/other")),
      Link(Some("de"), None), Link(Some("a-b-c"), Some("")), Link(None, Some("/pg")) }

RobotsContents ==
    { None, Some(""), Some("noindex"), Some("NOINDEX, follow"), Some("index, follow") }

\* the documents: the links vary or the robots meta tags do, or the title
\* tag has no text
Pages ==
    { Doc("<html>pg</html>", Some(Some("Pg")), Some("en"), << >>, links) :
        links \in UNION { SeqsOver(PageLinks, n) : n \in 0..MaxLinks } }
    \cup { Doc("<html>pg</html>", Some(Some("Pg")), Some("en"), robots, << >>) :
        robots \in UNION { SeqsOver(RobotsContents, n) : n \in 0..MaxMetas } }
    \cup { Doc("<html>pg</html>", Some(None), None, << >>, << >>) }

PageCalls ==
    { [ fn |-> "process_response", url |-> PageUrl,
        response |-> [ method |-> "HTTP", url |-> PageUrl, status |-> 200,
                       html |-> page, user_agent |-> HttpUserAgent ] ] : page \in Pages }

InitPage ==
    /\ url_entry = ""
    /\ url_file = << >>
    /\ threads_spin = "1"
    /\ method_combo = "Auto"
    /\ InitRunner
    /\ call \in PageCalls
    /\ ret = NoReturn

\* a call process_response(url, response); value is the row that
\* add_result_row receives at line 310 and appends to self.results
ProcessPage ==
    /\ call.fn = "process_response"
    /\ ~ret.done
    /\ LET r == process_response(call.url, call.response)
       IN  /\ ret' = [ done |-> TRUE, raised |-> r.raised, value |-> r.value ]
           /\ results' = IF r.raised THEN results ELSE add_result_row(results, r.value)
    /\ UNCHANGED << gui, main, driver, buttons, task_queue, unfinished_tasks, processing,
                    current_url_index, total_urls, threads, events, history, call >>

NextPage == ProcessPage

SpecPage == InitPage /\ [][NextPage]_vars

(***************************************************************************)
(* The fetch layer alone: try_all_methods called on the URLs of the stub   *)
(* and is_blocked called on responses put together from a status and a     *)
(* body.                                                                   *)
(***************************************************************************)
BlockMarkers ==
    { "access denied", "cloudflare", "captcha", "security", "bot", "blocked", "denied" }

Bodies ==
    { "<html>ok</html>" }
    \cup { "<p>" \o m \o "</p>" : m \in BlockMarkers }
    \cup { "<p>" \o upper(m) \o "</p>" : m \in BlockMarkers }

Statuses == { 200, 403, 429, 503 }

\* the URLs that try_all_methods is called on: those of the stub, two that
\* requests rewrites and one that it does not accept
FetchUrls == StubUrls \cup { "HTTP://H/ok", " http://h/a/../cf", "h/ok" }

FetchCalls ==
    { [ fn |-> "try_all_methods", url |-> u, down |-> n ] : u \in FetchUrls, n \in Networks }
    \cup { [ fn |-> "is_blocked",
             response |-> [ method |-> "HTTP", url |-> UrlOk, status |-> st,
                            html |-> Doc(body, None, None, << >>, << >>),
                            user_agent |-> HttpUserAgent ] ] :
           st \in Statuses, body \in Bodies }
    \cup { [ fn |-> "is_blocked", response |-> NoResponse ] }

InitFetch ==
    /\ url_entry = ""
    /\ url_file = << >>
    /\ threads_spin = "1"
    /\ method_combo = "Auto"
    /\ InitRunner
    /\ call \in FetchCalls
    /\ ret = NoReturn

\* a call try_all_methods(url): what it returns, whether it went on to
\* fetch_browser, and the page that the driver shows afterwards
\* (self.driver.get(url), line 428, unless it raises)
TryAllMethods ==
    /\ call.fn = "try_all_methods"
    /\ ~ret.done
    /\ LET r == try_all_methods(call.url, call.down)
       IN  /\ ret' = [ done |-> TRUE, raised |-> r.raised, value |-> r.value,
                       browser |-> r.browser ]
           /\ driver' = IF r.browser /\ ~driver_get(call.url).raised
                        THEN call.url ELSE driver
    /\ UNCHANGED << gui, main, buttons, task_queue, unfinished_tasks, processing,
                    current_url_index, total_urls, results, threads, events, history,
                    call >>

\* a call is_blocked(response)
IsBlocked ==
    /\ call.fn = "is_blocked"
    /\ ~ret.done
    /\ ret' = [ done |-> TRUE, value |-> is_blocked(call.response) ]
    /\ UNCHANGED << gui, main, driver, buttons, task_queue, unfinished_tasks, processing,
                    current_url_index, total_urls, results, threads, events, history,
                    call >>

NextFetch == TryAllMethods \/ IsBlocked

SpecFetch == InitFetch /\ [][NextFetch]_vars

(***************************************************************************)
(* Properties of a run (SpecRun and Spec).                                 *)
(***************************************************************************)
\* the latest run is over: start_analysis has returned with the run's
\* workers started, all workers have exited and every scheduled callback has
\* run
Drained ==
    /\ runs > 0
    /\ main.pc = "idle"
    /\ threads[(runs - 1) * MaxThreads + 1].pc # "idle"
    /\ events = << >>
    /\ \A t \in ThreadIds : threads[t].pc \in { "idle", "done", "crashed" }

\* the number of records of rows whose URL is u
RecordsOf(rows, u) == Cardinality({ i \in DOMAIN rows : rows[i].URL = u })

\* the number of lines of urls that are u
LinesOf(urls, u) == Cardinality({ i \in DOMAIN urls : urls[i] = u })

\* rows as a multiset
RowsBag(rows) ==
    [ r \in { rows[i] : i \in DOMAIN rows } |->
        Cardinality({ i \in DOMAIN rows : rows[i] = r }) ]

\* handling url under method raises: in the worker's dispatch, or in
\* process_response
Raises(method, url) ==
    LET r == Fetched[method][url] IN
    \/ r.raised
    \/ r.value # NoResponse /\ Processed[<< url, r.value >>].raised

\* the fetch of url under method returns no response
FetchFails(method, url) ==
    LET r == Fetched[method][url] IN ~r.raised /\ r.value = NoResponse

RECURSIVE SequentialRun(_, _, _, _)
\* the rows of a run in which one worker handles the URLs from the k-th on
\* one after the other, each callback running before the next URL is taken
SequentialRun(method, urls, k, rows) ==
    IF k > Len(urls) THEN rows
    ELSE LET url == urls[k]
             r == Fetched[method][url]
             row == IF r.raised THEN << >>
                    ELSE IF r.value = NoResponse THEN << failed_row(url) >>
                    ELSE IF Processed[<< url, r.value >>].raised THEN << >>
                    ELSE << Processed[<< url, r.value >>].value >>
         IN  SequentialRun(method, urls, k + 1, rows \o row)

\* C1: once a run that was not stopped has finished (all workers exited and
\* every scheduled callback executed), results holds exactly as many records
\* as the URL list has lines, and every input URL is the URL of exactly one
\* record (of as many as it has lines), whatever its outcome was
C1_OneRecordPerUrl ==
    (runs = 1 /\ ~cancelled /\ Drained) =>
        /\ Len(results) = Len(run_urls)
        /\ \A i \in DOMAIN run_urls :
              RecordsOf(results, run_urls[i]) = LinesOf(run_urls, run_urls[i])

\* C2: when handling a URL raises (in the dispatch of the fetch or in
\* process_response), the finished run holds a "Failed" or "Error" record for
\* that URL with a non-empty Issues message, and every queued URL was taken
C2_FailureIsolation ==
    (runs = 1 /\ Drained) =>
        /\ dequeued = Len(run_urls)
        /\ \A i \in DOMAIN run_urls :
              Raises(method_combo, run_urls[i]) =>
                 \E j \in DOMAIN results :
                    /\ results[j].URL = run_urls[i]
                    /\ results[j].Status \in { "Failed", "Error" }
                    /\ results[j].Issues # ""

\* the fetches of the run are those of a stub that answers every URL by
\* itself: no two workers have the shared driver to read from, because one
\* worker makes all the fetches or at most one line of the list is fetched
\* through the browser
FetchPerUrl ==
    \/ num_threads(threads_spin, run_urls).value = 1
    \/ Cardinality({ i \in DOMAIN run_urls : LoadsBrowser[method_combo][run_urls[i]] }) <= 1

\* C3: with fetches that answer every URL by itself, under every
\* interleaving a finished run holds the same multiset of records as a run
\* of one worker over the same list and stub (which holds them in the order
\* of the list), and every URL was dequeued exactly once
C3_SameAsOneWorker ==
    (runs = 1 /\ Drained /\ FetchPerUrl) =>
        /\ dequeued = Len(run_urls)
        /\ \A i \in DOMAIN run_urls : run_urls[i] \in claimed
        /\ RowsBag(results) = RowsBag(SequentialRun(method_combo, run_urls, 1, << >>))
        /\ num_threads(threads_spin, run_urls).value = 1 =>
              results = SequentialRun(method_combo, run_urls, 1, << >>)

\* C3, witness: two workers have finished a run over two URLs, one of them
\* fetched through the browser, and the records are those of one worker in
\* the other order
C3_TwoWorkersOtherOrder ==
    /\ runs = 1
    /\ Drained
    /\ FetchPerUrl
    /\ num_threads(threads_spin, run_urls).value = 2
    /\ threads[1].pc # "idle"
    /\ threads[2].pc # "idle"
    /\ dequeued = 2
    /\ \E i \in DOMAIN run_urls : LoadsBrowser[method_combo][run_urls[i]]
    /\ Len(results) = 2
    /\ results # SequentialRun(method_combo, run_urls, 1, << >>)
    /\ RowsBag(results) = RowsBag(SequentialRun(method_combo, run_urls, 1, << >>))

\* C4: when stop_processing was called after stop_k of the run's URLs had
\* been dequeued, then once the work in flight has drained results holds at
\* least stop_k and at most N records, and none for a URL never dequeued
C4_CancelBounds ==
    (cancelled /\ Drained) =>
        /\ stop_k <= Len(results)
        /\ Len(results) <= Len(run_urls)
        /\ \A i \in DOMAIN results : results[i].URL \in claimed

\* C5: a URL left in the queue by an earlier run is never fetched, and every
\* record in results after a run has a URL of that run's own list
C5_NoStaleWork ==
    /\ \A t \in ThreadIds :
          threads[t].pc \in { "load", "store", "fetch" } => ~threads[t].stale
    /\ Drained =>
          \A i \in DOMAIN results :
             results[i].URL \in { run_urls[k] : k \in DOMAIN run_urls }

\* C6: after all workers have finished, current_url_index equals the number
\* of URLs dequeued (no lost increment), and results holds one entry for each
\* record appended: whenever results changes, it was emptied by
\* start_analysis or one record was put behind those it held
C6_NoLostUpdate ==
    /\ []((runs = 1 /\ Drained) => current_url_index = dequeued)
    /\ [][results' # results =>
              \/ results' = << >>
              \/ /\ Len(results') = Len(results) + 1
                 /\ SubSeq(results', 1, Len(results)) = results]_vars

\* C7: a URL whose fetch returns no response gets exactly one record, with
\* Status "Failed", empty Title and Language and a non-empty Issues string,
\* the worker goes on with the queue, and the batch totals N records
C7_FailedFetchRecord ==
    (runs = 1 /\ Drained) =>
        \A i \in DOMAIN run_urls :
           FetchFails(method_combo, run_urls[i]) =>
              /\ RecordsOf(results, run_urls[i]) = LinesOf(run_urls, run_urls[i])
              /\ \A j \in DOMAIN results :
                    results[j].URL = run_urls[i] =>
                       /\ results[j].Status = "Failed"
                       /\ results[j].Title = Some("")
                       /\ results[j].Language = ""
                       /\ results[j].Issues # ""
              /\ dequeued = Len(run_urls)
              /\ Len(results) = Len(run_urls)

\* the positions in worker_thread from which a worker can come to dequeue
\* another URL
CanClaim(thread) ==
    \/ thread.pc \in { "while", "empty", "get", "load", "store", "fetch", "page_source",
                       "current_url", "html", "root_after" }
    \/ thread.pc = "finally" /\ ~thread.brk

\* C17: in every reachable state the number of worker threads that can still
\* claim URLs from the task queue is at most the max-workers value of the
\* current run, min(threads setting, number of URLs)
C17_PoolBounded ==
    Cardinality({ t \in ThreadIds : CanClaim(threads[t]) })
        <= num_threads(threads_spin, run_urls).value

\* C18: in a run that is not cancelled, finish_processing runs only after
\* every input URL has its record in results, and no record is appended
\* once the run was reported completed
C18_CompletedAfterAllRecords ==
    /\ [](export_btn = "normal" =>
             \A i \in DOMAIN run_urls : RecordsOf(results, run_urls[i]) >= 1)
    /\ [][export_btn = "normal" => results' = results]_vars

\* the positions in fetch_browser between driver.get and the last read of
\* the driver
InBrowser(thread) == thread.pc \in { "page_source", "current_url", "html" }

\* C19: the shared driver is never in use by two workers at once, and the
\* Browser response that a worker hands on for URL u (html, final URL, user
\* agent) is that of the page loaded for u
C19_DriverNotShared ==
    /\ \A t1, t2 \in ThreadIds :
          (InBrowser(threads[t1]) /\ InBrowser(threads[t2])) => t1 = t2
    /\ \A i \in DOMAIN events :
          (events[i].fn = "process_response" /\ events[i].arg.method = "Browser") =>
             events[i].arg = browser_response(events[i].url, RenderedOf(events[i].url))

\* C20: task_done is never called after a failed dequeue, so it is never
\* called more often than URLs were put, and no worker ends with an uncaught
\* exception
C20_TaskDoneOncePerUrl ==
    \A t \in ThreadIds :
       /\ ~(threads[t].pc = "finally" /\ threads[t].brk)
       /\ threads[t].pc # "crashed"

(***************************************************************************)
(* Properties of the validator (SpecValidator).                            *)
(***************************************************************************)
\* the positions of the '-' characters of code
Dashes(code) == { i \in 1..Len(code) : Char(code, i) = "-" }

\* the number of '-'-separated parts of code
NumParts(code) == 1 + Cardinality(Dashes(code))

\* a code of one or two parts whose language part is a two-letter language
\* code and whose region part, if there is one, is a two-letter country code
Recognized(code) ==
    IF Dashes(code) = {} THEN lower(code) \in LanguagesAlpha2
    ELSE LET d == CHOOSE i \in Dashes(code) : TRUE IN
         /\ lower(substr(code, 1, d - 1)) \in LanguagesAlpha2
         /\ upper_fits(substr(code, d + 1, Len(code)))
         /\ upper(substr(code, d + 1, Len(code))) \in CountriesAlpha2

\* C8: for a code other than "x-default" of one or two parts,
\* validate_hreflang returns true only if the language part and, when there
\* is one, the region part are recognized; a missing, empty or unrecognized
\* part makes it false
C8_OnlyRecognizedCodes ==
    ( /\ call.fn = "validate_hreflang"
      /\ ret.done
      /\ call.hreflang # "x-default"
      /\ NumParts(call.hreflang) <= 2 ) =>
        (ret.value => Recognized(call.hreflang))

\* C9: validate_hreflang returns a boolean for every code, true for
\* "x-default" and false for every other code of more than two parts,
\* whether or not the parts are language and country codes
C9_XDefaultAndPartCount ==
    (call.fn = "validate_hreflang" /\ ret.done) =>
        /\ ret.value \in BOOLEAN
        /\ call.hreflang = "x-default" => ret.value = TRUE
        /\ (call.hreflang # "x-default" /\ NumParts(call.hreflang) > 2) =>
              ret.value = FALSE

\* C9, witness: a code of three parts, the first two a language and a
\* country, was rejected
C9_ThreePartsRejected ==
    /\ call = [ fn |-> "validate_hreflang", hreflang |-> "en-US-x" ]
    /\ ret = [ done |-> TRUE, value |-> FALSE ]

\* scheme, host and path of a URL, without trailing slashes, case-folded
Kept(p) == lower(p.scheme \o "://" \o p.host \o p.path)

\* b is a with a trailing slash, a query or a fragment added
Added(a, b) ==
    \/ url_of(b) = url_of(a) \o "/"
    \/ a.query = "" /\ a.fragment = "" /\ url_of(b) = url_of(a) \o "?q=1"
    \/ a.fragment = "" /\ url_of(b) = url_of(a) \o "#f"

\* C10: url_matches(href, base) is true iff the two URLs are identical after
\* keeping only scheme, host and path, dropping query, fragment and trailing
\* slash, and case-folding; it is reflexive and symmetric, a URL matches
\* itself with a trailing slash, query or fragment added, and URLs whose
\* paths differ do not match
C10_MatchIffSameKept ==
    (call.fn = "url_matches" /\ ret.done) =>
        /\ ret.value = (Kept(call.href) = Kept(call.base_url))
        /\ ret.converse = ret.value
        /\ call.href = call.base_url => ret.value
        /\ Added(call.base_url, call.href) => ret.value
        /\ call.href.path # call.base_url.path => ~ret.value

(***************************************************************************)
(* Properties of the page analyzer (SpecPage).                             *)
(***************************************************************************)
\* a link element whose hreflang and href attributes are both present and
\* non-empty
Proper(link) ==
    link.hreflang \notin { None, Some("") } /\ link.href \notin { None, Some("") }

\* the alternate list of a page: its proper links in discovery order
ProperLinks(links) == SelectSeq(links, Proper)

\* the (hreflang, URL) pair of a proper link of the page at url
Alternate(url, link) == << lower(link.hreflang[1]), urljoin(url, link.href[1]).value >>

\* the slots of a row that hold a pair
FilledSlots(row) == { i \in 1..HreflangSlots : row.hreflangs[i] # << "", "" >> }

RECURSIVE IssuesOf(_, _, _)
\* the issues of the alternates from the k-th on: for each, "Invalid
\* hreflang" if its code does not validate, then "URL mismatch" if its
\* target does not match the page
IssuesOf(url, alternates, k) ==
    IF k > Len(alternates) THEN << >>
    ELSE (IF ~validate_hreflang(alternates[k][1])
          THEN << "Invalid hreflang: " \o alternates[k][1] >> ELSE << >>)
         \o (IF ~url_matches(alternates[k][2], url)
             THEN << "URL mismatch: " \o alternates[k][2] >> ELSE << >>)
         \o IssuesOf(url, alternates, k + 1)

\* the alternate list of the page of the call
CallAlternates ==
    LET proper == ProperLinks(call.response.html.links)
    IN  [ i \in 1..Len(proper) |-> Alternate(call.url, proper[i]) ]

\* C11: a link is added to the alternate list, and validated, only when its
\* hreflang and href are both present and non-empty: the row holds as many
\* pairs as the page has such links (up to the number of slots), and a page
\* without such links has no issue
C11_OnlyProperLinks ==
    (call.fn = "process_response" /\ ret.done) =>
        /\ Cardinality(FilledSlots(ret.value)) = min(Len(CallAlternates), HreflangSlots)
        /\ Len(CallAlternates) = 0 => ret.value.Issues = "Valid"

\* C12: for a page with M alternate links the row holds the first
\* min(M, 3) of them in discovery order in its slots and leaves the other
\* slots empty, while every one of the M links is validated (an invalid code
\* is reported whichever its position)
C12_FirstThreeStored ==
    (call.fn = "process_response" /\ ret.done) =>
        /\ \A i \in 1..HreflangSlots :
              ret.value.hreflangs[i] =
                 IF i <= Len(CallAlternates) THEN CallAlternates[i] ELSE << "", "" >>
        /\ \A i \in 1..Len(CallAlternates) :
              ~validate_hreflang(CallAlternates[i][1]) =>
                 in_str("Invalid hreflang: " \o CallAlternates[i][1], ret.value.Issues)

\* C13: the issues are exactly those of the alternate-link occurrences in
\* discovery order, "Invalid hreflang" before "URL mismatch" for each, and
\* Issues is "Valid" iff there is none
C13_IssuesPerOccurrence ==
    (call.fn = "process_response" /\ ret.done) =>
        LET issues == IssuesOf(call.url, CallAlternates, 1)
        IN  ret.value.Issues = IF issues = << >> THEN "Valid" ELSE join(", ", issues)

\* C14: a fetched page is reported not indexable iff it has a robots meta
\* tag whose content contains "noindex" in any case; without such a tag, or
\* with a robots meta without content, it is reported indexable
C14_NoindexMeta ==
    (call.fn = "process_response" /\ ret.done) =>
        LET robots == call.response.html.robots
        IN  (ret.value.Indexable = "no") <=>
               \E i \in DOMAIN robots :
                  robots[i] # None /\ in_str("noindex", lower(robots[i][1]))

(***************************************************************************)
(* Properties of a run under fair scheduling (SpecLive).                   *)
(***************************************************************************)
\* C21: every run that start_analysis started is eventually left through
\* finish_processing: processing becomes false and the start controls are
\* enabled again
C21_RunLeavesRunning ==
    (processing /\ run_btn = "disabled") ~> (~processing /\ run_btn = "normal")

(***************************************************************************)
(* Properties of the fetch layer (SpecFetch).                              *)
(***************************************************************************)
\* C15: in "Auto" mode the direct request comes first and fetch_browser is
\* called iff it failed or its response is blocked; a direct response that is
\* not blocked is returned as it is and the driver, which showed no page
\* before the call, still shows none; otherwise the driver was sent to the
\* URL and what the browser gave is returned (nothing when the browser
\* failed too)
C15_DirectThenBrowser ==
    (call.fn = "try_all_methods" /\ ret.done /\ ~ret.raised) =>
        LET direct == fetch_http(call.url, call.down).value
        IN  IF direct = NoResponse \/ is_blocked(direct)
            THEN /\ ret.browser
                 /\ driver = IF driver_get(call.url).raised THEN "" ELSE call.url
                 /\ ret.value = fetch_browser(call.url).value
                 /\ ret.value # NoResponse => ret.value.method = "Browser"
            ELSE /\ ~ret.browser
                 /\ driver = ""
                 /\ ret.value = direct
                 /\ ret.value.method = "HTTP"

\* C15, witness: the direct response was blocked and the browser's response
\* was returned
C15_FellBackToBrowser ==
    /\ call = [ fn |-> "try_all_methods", url |-> UrlCf, down |-> Unreachable ]
    /\ ret.done
    /\ ~ret.raised
    /\ fetch_http(UrlCf, Unreachable).value # NoResponse
    /\ ret.browser
    /\ driver = UrlCf
    /\ ret.value.method = "Browser"

\* C16: is_blocked answers true for an absent response, for status 403, 429
\* or 503, and for a body that contains one of the markers in any case
C16_BlockedStatusesAndMarkers ==
    ( /\ call.fn = "is_blocked"
      /\ ret.done
      /\ \/ call.response = NoResponse
         \/ call.response.status \in { 403, 429, 503 }
         \/ \E m \in BlockMarkers : in_str(m, lower(call.response.html.text)) )
    => ret.value = TRUE

====
